---------------------------- MODULE Spec2Model ----------------------------
(***************************************************************************)
(* A model of collmbo, the Slack bot that relays streamed LLM completions  *)
(* into Slack messages.  The module holds one state machine per component  *)
(* of the reply pipeline; each has its own variables, its own initial      *)
(* predicate and its own specification, and leaves the variables of the    *)
(* other components alone:                                                 *)
(*                                                                         *)
(*   SpecTrim    the context trimmer and the rounds that feed it           *)
(*               (litellm_logic.py, litellm_ops.py, litellm_service.py)    *)
(*   SpecStream  one streamed response: chunk loop, flush threads,         *)
(*               overflow into continuation messages (handle_litellm_stream*)
(*               and stream_litellm_reply_to_slack)                        *)
(*   SpecTime    the timeout budget across the rounds of a reply session   *)
(*   SpecHandler the listeners respond_to_new_message and                  *)
(*               respond_to_app_mention (bolt_listeners.py)                *)
(*   SpecMiddleware  before_authorize (bolt_middlewares.py) in front of    *)
(*               the listeners                                             *)
(*   SpecTool    process_tool_calls and the trimming that follows it       *)
(*   SpecOAuth   the OAuth sessions of remote tool servers and             *)
(*               process_oauth_mcp_tool_call (mcp/oauth_tools_service.py)  *)
(*   SpecBudget  the context budget the trimmer is run with                *)
(*   SpecSession a reply session across rounds: continuation messages,     *)
(*               tool-round placeholders, the listener's except clauses    *)
(*   SpecClassify  which posts the two listeners accept                    *)
(*   SpecPdf     the PDF attachments of the assembled messages             *)
(*   SpecNaming  building and parsing the names of MCP tools               *)
(*   SpecTranslate  the translation cache shared by the reply sessions     *)
(*   SpecEstimate   the cached tool-schema estimate                        *)
(*   SpecPoller  the OAuth token poller and its cancellation               *)
(*   SpecMetadata   the metadata of the WIP messages                       *)
(*   SpecWindow  the system message of the lists sent to the provider      *)
(*   SpecNormalize  the text of a history message on its way to the model  *)
(*   SpecAnchor  the thread a reply is posted in                           *)
(*   SpecFlush   the flushes of a stream of given chunks                   *)
(*   SpecRounds  whether the rounds of a session come to an end            *)
(*   SpecFlows   several OAuth flows of one user and server                *)
(*   SpecAbandon the sessions of several user messages in one thread       *)
(*   SpecHome    what the home tab shows for an OAuth server               *)
(*                                                                         *)
(* The repository holds two generations of the reply engine side by side:  *)
(* litellm_ops.py (used by bolt_listeners.py) and litellm_service.py with  *)
(* litellm_logic.py.  Where they differ the model carries both and the     *)
(* variable impl says which one a behaviour runs.                          *)
(***************************************************************************)
EXTENDS Integers, Sequences, FiniteSets, TLC

VARIABLES
    impl,                \* "ops" (litellm_ops.py) or "service" (litellm_service.py)
    \* ---- context trimmer ----
    messages,            \* the running message list, a sequence of [role, cost]
    max_context_tokens,  \* the context budget
    messages_tokens,     \* the last token_counter() result of the eviction loop
    num_context_tokens,  \* ops only: the count reported with the overflow text
    trim_pc,             \* where the session is
    reentry,             \* TRUE once the trimmer runs after a tool dispatch
    rounds,              \* completion rounds started so far
    \* ---- streaming of one response ----
    stream_pc,           \* where the stream-consuming flow is
    stream_content,      \* the content deltas the provider has delivered so far
    chunks_read,         \* chunks taken from the stream so far
    finished,            \* the stream has delivered its finish chunk
    final_chunk,         \* is_final_chunk(chunk) of the chunk being handled
    assistant_message,   \* content of the assistant message of this round
    buffered_text,       \* len(buffered_text)
    is_response_too_long,
    threads,             \* the flush threads of this round: [snapshot, at]
    timed_out,           \* a TimeoutError is propagating through finally
    wip_replies,         \* the WIP messages: [local, slack]
    appended,            \* contents of the assistant messages appended so far
    \* ---- the timeout budget of a reply session ----
    time_pc,             \* where the session is
    clock,               \* time.time(), in ticks
    session_start,       \* the clock when the session's first frame began, -1 before
    caller_budget,       \* timeout_seconds as the listener passed it
    timeout_seconds,     \* timeout_seconds of the running frame
    start_time,          \* start_time of the running frame, in ticks
    round_timeout,       \* timeout_seconds as handle_litellm_stream received it
    round_start,         \* start_time as handle_litellm_stream received it
    reads,               \* chunks read in the session
    \* ---- the event handlers ----
    handler,             \* the listener that runs
    payload,             \* the event: bot_id, channel_type, thread_ts
    channel_id,          \* context.channel_id
    handler_pc,          \* where the handler is
    wip_reply,           \* "None" until post_wip_message has returned
    \* ---- the before_authorize middleware ----
    requests,            \* requests Slack has sent and the app has not yet handled
    handled,             \* what before_authorize did with each request, in order
    sessions,            \* the requests for which a listener started a reply session
    user_requests,       \* requests caused by users so far
    bot_edits,           \* chat_update / chat_delete calls of reply sessions so far
    \* ---- tool dispatch ----
    dispatcher,          \* the module whose process_tool_calls runs
    tool_calls,          \* response_message.tool_calls
    tool_pc,             \* where the dispatch is
    next_call,           \* index of the tool call the loop is at
    dispatch_messages,   \* the message list handed to process_tool_calls
    context_budget,      \* max_context_tokens of the trimmer that follows
    \* ---- OAuth sessions of remote tool servers ----
    user_oauth_sessions, \* per user and server: the cached session, or NoSession
    issued,              \* tokens the authorization flow has issued so far
    revoked,             \* the tokens the servers no longer accept
    last_call,           \* the last process_oauth_mcp_tool_call: who, with which token, how it ended
    auth_failed,         \* the sessions that met an authentication failure
    \* ---- the context budget ----
    budget_pc,           \* where the budget computation is
    max_input_tokens,    \* get_max_input_tokens(LITELLM_MODEL_TYPE)
    max_output_tokens,   \* LITELLM_MAX_TOKENS
    tools_module_name,   \* "None" or the configured tools module
    tools_cache,         \* the lru_cache of estimate_tools_tokens: empty, or the one cached value
    tools_tokens,        \* the tool-schema estimate of this computation
    calculated_budget,   \* the max_context_tokens the computation produced
    \* ---- a reply session across rounds ----
    session_pc,          \* where the innermost call of the reply session is
    wips,                \* the messages the session has posted: text kept in wip_reply, text on Slack
    frames,              \* the calls of the stream function, innermost last
    round_no,            \* completion rounds started so far
    flushed,             \* TRUE once a flush of the running round has updated its message
    in_flight,           \* the exception on its way to the listener, or None
    writes,              \* which round has rendered content into which message
    \* ---- which posts the listeners accept ----
    post,                \* the user post Slack reports: channel type, thread, mentions
    listener_pc,         \* per listener: where it is with the event of that post
    \* ---- PDF attachments of the assembled messages ----
    thread_replies,      \* the replies of the thread, each the kinds of its attached files
    pdf_pc,              \* where the assembly of the message list is
    reply_idx,           \* the reply the assembly works on next
    pdf_content,         \* per reply, the positions of its files that became PDF content items
    \* ---- names of MCP tools ----
    naming_pc,           \* where the tool name is: given, built, parsed
    tool_given,          \* the tool a name is made for: a specification of an MCP server or a function of the tools module
    built_name,          \* the name the provider is told, a sequence of characters
    parsed_name,         \* what parse_mcp_tool_name made of the name
    \* ---- the translation cache ----
    translation_result_cache, \* _translation_result_cache: per (language, text) the cached translation, "None" while there is none
    translators,         \* per reply session: where its translate call is, what it translates, what it got and returned
    completion_calls,    \* completion calls made for translations so far
    \* ---- the tool-schema estimate shared by the reply sessions ----
    estimate_module,     \* LITELLM_TOOLS_MODULE_NAME of the process
    estimate_cache,      \* the lru_cache of the estimator: empty, or the one result it holds
    estimators,          \* per reply session: where its call of the estimator is, what it returned, how many trims it has run
    probe_pairs,         \* pairs of probe completions (with and without the tools) made so far
    \* ---- the OAuth token poller and its cancellation ----
    flow_pc,             \* where initiate_oauth_flow_with_callback is
    poller_active,       \* whether active_oauth_pollers holds the key of the user and server
    poller_cancelled,    \* the cancelled flag of the poller
    cancel_pc,           \* where cancel_user_oauth_polling is
    cancel_found,        \* what cancel_oauth_polling returned
    user_oauth_url,      \* user_oauth_urls for the user and server: "None", "processing" or the authorisation URL
    token_delivered,     \* whether on_token_callback has been called
    session_stored,      \* whether set_user_oauth_session has been called by the flow
    polls,               \* calls of polling_func so far
    \* ---- metadata of the WIP messages ----
    meta_pc,             \* where the thread is: a first reply session posts and updates its WIP message, a later reply reads the thread
    meta_given,          \* who asked first and who asks later, and SYSTEM_TEXT at both times
    wip_metadata,        \* the metadata Slack holds for the WIP message
    wip_calls,           \* the chat_postMessage and chat_update calls made for the WIP message, each with the metadata it carried
    rebuilt,             \* the system message and the user the later reply starts from
    \* ---- the system message of the lists sent to the provider ----
    window_pc,           \* where the reply session is with its message list
    window_given,        \* the event: the listener, whether it is in the DM, the replies of the thread, the context budget
    window,              \* the message list of the reply session
    sent,                \* the message lists sent to the provider, in order
    window_round,        \* completion rounds started
    \* ---- the text of a history message on its way to the model ----
    norm_pc,             \* where the assembly of the texts is
    norm_given,          \* the path that assembles, REDACTION_ENABLED, TRANSLATE_MARKDOWN and the texts of the history, oldest first
    model_texts,         \* the texts put into the message list, oldest first
    \* ---- the thread a reply is posted in ----
    anchor_pc,           \* where the choice of the thread to reply in is
    anchor_given,        \* the code that chooses and the post replied to
    anchor,              \* the thread_ts the reply is posted with
    \* ---- the flushes of a stream of given chunks ----
    flush_pc,            \* where the chunk loop of the scenario is
    flush_given,         \* SLACK_UPDATE_TEXT_BUFFER_SIZE and the chunks of the stream
    flush_pos,           \* the chunks read
    flush_content,       \* the content of the assistant message, in characters
    flush_buffered,      \* buffered_text, in characters
    flushes,             \* the texts written to the placeholder, in order, with the chunk that made each
    \* ---- the rounds of a session against its timeout ----
    live_pc,             \* where the session is
    live_timeout,        \* timeout_seconds of the frame
    live_elapsed,        \* ticks since start_time of the frame
    live_round_timeout,  \* timeout_seconds handed to handle_litellm_stream
    live_took_time,      \* whether time has passed in the round
    \* ---- several OAuth flows of one user and server ----
    active_oauth_pollers, \* the flow whose poller is kept under the key of the user and the server, None if the key is absent
    oauth_flow_pc,       \* where each flow of that user and server is
    oauth_flow_cancelled, \* cancelled of the poller of each flow
    user_oauth_urls,\* the URL stored for the user and the server, None if there is none
    \* ---- sessions of several user messages in one thread ----
    thread_posts,        \* the messages of the thread, oldest first
    abandon_pc,          \* where the session of each user message is
    abandon_context,     \* the user messages each session has read from the thread
    deleted_wips,        \* the WIP messages deleted with chat_delete
    updated_wips,        \* the WIP messages updated after they were deleted
    \* ---- the home tab ----
    home_pc,             \* whether the home tab has been published
    home_given,          \* for each OAuth server the URL stored for the user and the session stored for the user
    home_blocks          \* for each OAuth server what the published view shows under its name

trimVars == <<messages, max_context_tokens, messages_tokens,
              num_context_tokens, trim_pc, reentry, rounds>>

streamVars == <<stream_pc, stream_content, chunks_read, finished, final_chunk,
                assistant_message, buffered_text, is_response_too_long,
                threads, timed_out, wip_replies, appended>>

timeVars == <<time_pc, clock, session_start, caller_budget, timeout_seconds,
              start_time, round_timeout, round_start, reads>>

handlerVars == <<handler, payload, channel_id, handler_pc, wip_reply>>

middlewareVars == <<requests, handled, sessions, user_requests, bot_edits>>

toolVars == <<dispatcher, tool_calls, tool_pc, next_call, dispatch_messages,
              context_budget>>

oauthVars == <<user_oauth_sessions, issued, revoked, last_call, auth_failed>>

budgetVars == <<budget_pc, max_input_tokens, max_output_tokens, tools_module_name, tools_cache, tools_tokens, calculated_budget>>

sessionVars == <<session_pc, wips, frames, round_no, flushed, in_flight, writes>>

classifyVars == <<post, listener_pc>>

pdfVars == <<thread_replies, pdf_pc, reply_idx, pdf_content>>

namingVars == <<naming_pc, tool_given, built_name, parsed_name>>

translateVars == <<translation_result_cache, translators, completion_calls>>

estimateVars == <<estimate_module, estimate_cache, estimators, probe_pairs>>

pollerVars == <<flow_pc, poller_active, poller_cancelled, cancel_pc, cancel_found, user_oauth_url, token_delivered, session_stored, polls>>

metadataVars == <<meta_pc, meta_given, wip_metadata, wip_calls, rebuilt>>

windowVars == <<window_pc, window_given, window, sent, window_round>>

normalizeVars == <<norm_pc, norm_given, model_texts>>

anchorVars == <<anchor_pc, anchor_given, anchor>>

flushVars == <<flush_pc, flush_given, flush_pos, flush_content, flush_buffered, flushes>>

roundsVars == <<live_pc, live_timeout, live_elapsed, live_round_timeout, live_took_time>>

flowsVars == <<active_oauth_pollers, oauth_flow_pc, oauth_flow_cancelled,
               user_oauth_urls>>

abandonVars == <<thread_posts, abandon_pc, abandon_context, deleted_wips, updated_wips>>

homeVars == <<home_pc, home_given, home_blocks>>

vars == <<impl,
          trimVars,
          streamVars,
          timeVars,
          handlerVars,
          middlewareVars,
          toolVars,
          oauthVars,
          budgetVars,
          sessionVars,
          classifyVars,
          pdfVars,
          namingVars,
          translateVars,
          estimateVars,
          pollerVars,
          metadataVars,
          windowVars,
          normalizeVars,
          anchorVars,
          flushVars,
          roundsVars,
          flowsVars,
          abandonVars,
          homeVars>>

\* What each component leaves alone.
notTrim == <<impl, streamVars, timeVars, handlerVars, middlewareVars, toolVars, oauthVars, budgetVars, sessionVars, classifyVars, pdfVars, namingVars, translateVars, estimateVars, pollerVars, metadataVars, windowVars, normalizeVars, anchorVars, flushVars, roundsVars, flowsVars, abandonVars, homeVars>>
notStream == <<impl, trimVars, timeVars, handlerVars, middlewareVars, toolVars, oauthVars, budgetVars, sessionVars, classifyVars, pdfVars, namingVars, translateVars, estimateVars, pollerVars, metadataVars, windowVars, normalizeVars, anchorVars, flushVars, roundsVars, flowsVars, abandonVars, homeVars>>
notTime == <<impl, trimVars, streamVars, handlerVars, middlewareVars, toolVars, oauthVars, budgetVars, sessionVars, classifyVars, pdfVars, namingVars, translateVars, estimateVars, pollerVars, metadataVars, windowVars, normalizeVars, anchorVars, flushVars, roundsVars, flowsVars, abandonVars, homeVars>>
notHandler == <<impl, trimVars, streamVars, timeVars, middlewareVars, toolVars, oauthVars, budgetVars, sessionVars, classifyVars, pdfVars, namingVars, translateVars, estimateVars, pollerVars, metadataVars, windowVars, normalizeVars, anchorVars, flushVars, roundsVars, flowsVars, abandonVars, homeVars>>
notMiddleware == <<impl, trimVars, streamVars, timeVars, handlerVars, toolVars, oauthVars, budgetVars, sessionVars, classifyVars, pdfVars, namingVars, translateVars, estimateVars, pollerVars, metadataVars, windowVars, normalizeVars, anchorVars, flushVars, roundsVars, flowsVars, abandonVars, homeVars>>
notTool == <<impl, trimVars, streamVars, timeVars, handlerVars, middlewareVars, oauthVars, budgetVars, sessionVars, classifyVars, pdfVars, namingVars, translateVars, estimateVars, pollerVars, metadataVars, windowVars, normalizeVars, anchorVars, flushVars, roundsVars, flowsVars, abandonVars, homeVars>>
notOAuth == <<impl, trimVars, streamVars, timeVars, handlerVars, middlewareVars, toolVars, budgetVars, sessionVars, classifyVars, pdfVars, namingVars, translateVars, estimateVars, pollerVars, metadataVars, windowVars, normalizeVars, anchorVars, flushVars, roundsVars, flowsVars, abandonVars, homeVars>>
notBudget == <<impl, trimVars, streamVars, timeVars, handlerVars, middlewareVars, toolVars, oauthVars, sessionVars, classifyVars, pdfVars, namingVars, translateVars, estimateVars, pollerVars, metadataVars, windowVars, normalizeVars, anchorVars, flushVars, roundsVars, flowsVars, abandonVars, homeVars>>
notSession == <<impl, trimVars, streamVars, timeVars, handlerVars, middlewareVars, toolVars, oauthVars, budgetVars, classifyVars, pdfVars, namingVars, translateVars, estimateVars, pollerVars, metadataVars, windowVars, normalizeVars, anchorVars, flushVars, roundsVars, flowsVars, abandonVars, homeVars>>
notClassify == <<impl, trimVars, streamVars, timeVars, handlerVars, middlewareVars, toolVars, oauthVars, budgetVars, sessionVars, pdfVars, namingVars, translateVars, estimateVars, pollerVars, metadataVars, windowVars, normalizeVars, anchorVars, flushVars, roundsVars, flowsVars, abandonVars, homeVars>>
notPdf == <<impl, trimVars, streamVars, timeVars, handlerVars, middlewareVars, toolVars, oauthVars, budgetVars, sessionVars, classifyVars, namingVars, translateVars, estimateVars, pollerVars, metadataVars, windowVars, normalizeVars, anchorVars, flushVars, roundsVars, flowsVars, abandonVars, homeVars>>
notNaming == <<impl, trimVars, streamVars, timeVars, handlerVars, middlewareVars, toolVars, oauthVars, budgetVars, sessionVars, classifyVars, pdfVars, translateVars, estimateVars, pollerVars, metadataVars, windowVars, normalizeVars, anchorVars, flushVars, roundsVars, flowsVars, abandonVars, homeVars>>
notTranslate == <<impl, trimVars, streamVars, timeVars, handlerVars, middlewareVars, toolVars, oauthVars, budgetVars, sessionVars, classifyVars, pdfVars, namingVars, estimateVars, pollerVars, metadataVars, windowVars, normalizeVars, anchorVars, flushVars, roundsVars, flowsVars, abandonVars, homeVars>>
notEstimate == <<impl, trimVars, streamVars, timeVars, handlerVars, middlewareVars, toolVars, oauthVars, budgetVars, sessionVars, classifyVars, pdfVars, namingVars, translateVars, pollerVars, metadataVars, windowVars, normalizeVars, anchorVars, flushVars, roundsVars, flowsVars, abandonVars, homeVars>>
notPoller == <<impl, trimVars, streamVars, timeVars, handlerVars, middlewareVars, toolVars, oauthVars, budgetVars, sessionVars, classifyVars, pdfVars, namingVars, translateVars, estimateVars, metadataVars, windowVars, normalizeVars, anchorVars, flushVars, roundsVars, flowsVars, abandonVars, homeVars>>
notMetadata == <<impl, trimVars, streamVars, timeVars, handlerVars, middlewareVars, toolVars, oauthVars, budgetVars, sessionVars, classifyVars, pdfVars, namingVars, translateVars, estimateVars, pollerVars, windowVars, normalizeVars, anchorVars, flushVars, roundsVars, flowsVars, abandonVars, homeVars>>
notWindow == <<impl, trimVars, streamVars, timeVars, handlerVars, middlewareVars, toolVars, oauthVars, budgetVars, sessionVars, classifyVars, pdfVars, namingVars, translateVars, estimateVars, pollerVars, metadataVars, normalizeVars, anchorVars, flushVars, roundsVars, flowsVars, abandonVars, homeVars>>
notNormalize == <<impl, trimVars, streamVars, timeVars, handlerVars, middlewareVars, toolVars, oauthVars, budgetVars, sessionVars, classifyVars, pdfVars, namingVars, translateVars, estimateVars, pollerVars, metadataVars, windowVars, anchorVars, flushVars, roundsVars, flowsVars, abandonVars, homeVars>>
notAnchor == <<impl, trimVars, streamVars, timeVars, handlerVars, middlewareVars, toolVars, oauthVars, budgetVars, sessionVars, classifyVars, pdfVars, namingVars, translateVars, estimateVars, pollerVars, metadataVars, windowVars, normalizeVars, flushVars, roundsVars, flowsVars, abandonVars, homeVars>>
notFlush == <<impl, trimVars, streamVars, timeVars, handlerVars, middlewareVars, toolVars, oauthVars, budgetVars, sessionVars, classifyVars, pdfVars, namingVars, translateVars, estimateVars, pollerVars, metadataVars, windowVars, normalizeVars, anchorVars, roundsVars, flowsVars, abandonVars, homeVars>>
notRounds == <<impl, trimVars, streamVars, timeVars, handlerVars, middlewareVars, toolVars, oauthVars, budgetVars, sessionVars, classifyVars, pdfVars, namingVars, translateVars, estimateVars, pollerVars, metadataVars, windowVars, normalizeVars, anchorVars, flushVars, flowsVars, abandonVars, homeVars>>
notFlows == <<impl, trimVars, streamVars, timeVars, handlerVars, middlewareVars, toolVars, oauthVars, budgetVars, sessionVars, classifyVars, pdfVars, namingVars, translateVars, estimateVars, pollerVars, metadataVars, windowVars, normalizeVars, anchorVars, flushVars, roundsVars, abandonVars, homeVars>>
notAbandon == <<impl, trimVars, streamVars, timeVars, handlerVars, middlewareVars, toolVars, oauthVars, budgetVars, sessionVars, classifyVars, pdfVars, namingVars, translateVars, estimateVars, pollerVars, metadataVars, windowVars, normalizeVars, anchorVars, flushVars, roundsVars, flowsVars, homeVars>>
notHome == <<impl, trimVars, streamVars, timeVars, handlerVars, middlewareVars, toolVars, oauthVars, budgetVars, sessionVars, classifyVars, pdfVars, namingVars, translateVars, estimateVars, pollerVars, metadataVars, windowVars, normalizeVars, anchorVars, flushVars, roundsVars, flowsVars, abandonVars>>

\* A component that a specification does not run rests in these values.
HomeIdle ==
    /\ home_pc = "idle"
    /\ home_given = [server \in {"server_a", "server_b"} |-> [auth_url |-> "None", session |-> "None"]]
    /\ home_blocks = [server \in {"server_a", "server_b"} |-> {}]

AbandonIdle ==
    /\ thread_posts = <<>>
    /\ abandon_pc = [s \in {1, 2} |-> "idle"]
    /\ abandon_context = [s \in {1, 2} |-> {}]
    /\ deleted_wips = {}
    /\ updated_wips = {}

FlowsIdle ==
    /\ active_oauth_pollers = "None"
    /\ oauth_flow_pc = [f \in {"first", "second"} |-> "idle"]
    /\ oauth_flow_cancelled = [f \in {"first", "second"} |-> FALSE]
    /\ user_oauth_urls = "None"

RoundsIdle ==
    /\ live_pc = "idle"
    /\ live_timeout = 0
    /\ live_elapsed = 0
    /\ live_round_timeout = 0
    /\ live_took_time = FALSE

FlushIdle ==
    /\ flush_pc = "idle"
    /\ flush_given = [threshold |-> 0, chunks |-> <<>>]
    /\ flush_pos = 0
    /\ flush_content = <<>>
    /\ flush_buffered = <<>>
    /\ flushes = <<>>

AnchorIdle ==
    /\ anchor_pc = "idle"
    /\ anchor_given = [path |-> "determine_thread_ts_to_reply", channel_type |-> "im", thread_ts |-> "None", ts |-> "None"]
    /\ anchor = "None"

NormalizeIdle ==
    /\ norm_pc = "idle"
    /\ norm_given = [path |-> "convert_replies_to_messages", redaction |-> FALSE, markdown |-> FALSE, texts |-> <<>>]
    /\ model_texts = <<>>

WindowIdle ==
    /\ window_pc = "idle"
    /\ window_given = [listener |-> "respond_to_new_message", in_dm |-> TRUE, replies |-> <<>>, budget |-> 0]
    /\ window = <<>>
    /\ sent = <<>>
    /\ window_round = 0

MetadataIdle ==
    /\ meta_pc = "idle"
    /\ meta_given = [first_user |-> "U1", first_system |-> "v1", later_user |-> "U1", later_system |-> "v1"]
    /\ wip_metadata = [event_type |-> "None", messages |-> "None", user |-> "None"]
    /\ wip_calls = <<>>
    /\ rebuilt = [system |-> "None", user |-> "None"]

PollerIdle ==
    /\ flow_pc = "idle"
    /\ poller_active = FALSE
    /\ poller_cancelled = FALSE
    /\ cancel_pc = "idle"
    /\ cancel_found = FALSE
    /\ user_oauth_url = "None"
    /\ token_delivered = FALSE
    /\ session_stored = FALSE
    /\ polls = 0

EstimateIdle ==
    /\ estimate_module = "None"
    /\ estimate_cache = {}
    /\ estimators = <<>>
    /\ probe_pairs = 0

TranslateIdle ==
    /\ translation_result_cache = <<>>
    /\ translators = <<>>
    /\ completion_calls = 0

NamingIdle ==
    /\ naming_pc = "idle"
    /\ tool_given = [origin |-> "classic", spec_name |-> <<>>, auth_type |-> "none", server_index |-> 0, model |-> "gpt-4o"]
    /\ built_name = <<>>
    /\ parsed_name = <<<<>>, "", -1>>

PdfIdle ==
    /\ thread_replies = <<>>
    /\ pdf_pc = "idle"
    /\ reply_idx = 0
    /\ pdf_content = <<>>

ClassifyIdle ==
    /\ post = [channel_type |-> "im", thread_ts |-> "None", mentions_app |-> FALSE, root |-> "None", in_replies |-> FALSE]
    /\ listener_pc = <<>>

SessionIdle ==
    /\ session_pc = "idle"
    /\ wips = <<>>
    /\ frames = <<>>
    /\ round_no = 0
    /\ flushed = FALSE
    /\ in_flight = "None"
    /\ writes = {}

BudgetIdle ==
    /\ budget_pc = "idle"
    /\ max_input_tokens = 0
    /\ max_output_tokens = 0
    /\ tools_module_name = "None"
    /\ tools_cache = {}
    /\ tools_tokens = 0
    /\ calculated_budget = 0

OAuthIdle ==
    /\ user_oauth_sessions = <<>>
    /\ issued = 0
    /\ revoked = {}
    /\ last_call = [user |-> "", server |-> "", token |-> 0, outcome |-> "none"]
    /\ auth_failed = {}

ToolIdle ==
    /\ dispatcher = "none"
    /\ tool_calls = <<>>
    /\ tool_pc = "idle"
    /\ next_call = 0
    /\ dispatch_messages = <<>>
    /\ context_budget = 0

MiddlewareIdle ==
    /\ requests = <<>>
    /\ handled = <<>>
    /\ sessions = <<>>
    /\ user_requests = 0
    /\ bot_edits = 0

HandlerIdle ==
    /\ handler = "none"
    /\ payload = [bot_id |-> "None", channel_type |-> "im", thread_ts |-> "None"]
    /\ channel_id = "None"
    /\ handler_pc = "idle"
    /\ wip_reply = "None"

TimeIdle ==
    /\ time_pc = "idle"
    /\ clock = 0
    /\ session_start = -1
    /\ caller_budget = 0
    /\ timeout_seconds = 0
    /\ start_time = 0
    /\ round_timeout = 0
    /\ round_start = 0
    /\ reads = 0

TrimIdle ==
    /\ messages = <<>>
    /\ max_context_tokens = 0
    /\ messages_tokens = 0
    /\ num_context_tokens = 0
    /\ trim_pc = "idle"
    /\ reentry = FALSE
    /\ rounds = 0

StreamIdle ==
    /\ stream_pc = "idle"
    /\ stream_content = <<>>
    /\ chunks_read = 0
    /\ finished = FALSE
    /\ final_chunk = FALSE
    /\ assistant_message = <<>>
    /\ buffered_text = 0
    /\ is_response_too_long = FALSE
    /\ threads = <<>>
    /\ timed_out = FALSE
    /\ wip_replies = <<>>
    /\ appended = <<>>

(***************************************************************************)
(* Helpers on sequences.                                                   *)
(***************************************************************************)
RemoveAt(s, i) == [k \in 1..(Len(s) - 1) |-> IF k < i THEN s[k] ELSE s[k + 1]]

RECURSIVE SeqSum(_)
SeqSum(s) == IF s = <<>> THEN 0 ELSE Head(s) + SeqSum(Tail(s))

(***************************************************************************)
(* CONTEXT TRIMMER                                                         *)
(***************************************************************************)
\* Bounds of the trimmer model.
MaxSystem == 2      \* system messages at the head of an assembled list
MaxHistory == 2     \* user/assistant messages assembled from the history
MaxToolCalls == 2   \* tool messages appended by one dispatch
MaxRounds == 2      \* completion rounds of one session
MaxBudget == 5      \* largest context budget tried

Costs == {1, 2}     \* token cost of one message (the tokenizer is a black box)

Msg(r, c) == [role |-> r, cost |-> c]

\* The black-box tokenizer: the cost of a list is the sum of its messages' costs.
token_counter(msgs) == SeqSum([k \in 1..Len(msgs) |-> msgs[k].cost])

\* Sequences over S of length lo..hi.
SeqsOf(S, lo, hi) == UNION {[1..n -> S] : n \in lo..hi}

\* What the listeners assemble: the system message(s), then the history as
\* user and assistant messages (bolt_listeners.py never assembles a tool role).
AssembledLists ==
    {sys \o hist :
        sys \in SeqsOf({Msg("system", c) : c \in Costs}, 1, MaxSystem),
        hist \in SeqsOf({Msg(r, c) : r \in {"user", "assistant"}, c \in Costs},
                        1, MaxHistory)}

\* The roles the eviction loop may delete, with system among them.
EvictableRolesWithSystem == {"user", "assistant", "function", "system"}

\* The roles the eviction loop may delete.
EvictableRoles == {"user", "assistant", "function"}

\* for i, message in enumerate(messages): if message["role"] in (...): the
\* index of the first message the loop may delete, 0 when there is none.
FirstEvictable(msgs) ==
    IF \E i \in 1..Len(msgs) : msgs[i].role \in EvictableRoles
    THEN CHOOSE i \in 1..Len(msgs) :
            /\ msgs[i].role \in EvictableRoles
            /\ \A j \in 1..(i - 1) : msgs[j].role \notin EvictableRoles
    ELSE 0

\* The earliest entry that is not a system message, 0 when there is none.
EarliestNonSystem(msgs) ==
    IF \E i \in 1..Len(msgs) : msgs[i].role # "system"
    THEN CHOOSE i \in 1..Len(msgs) :
            /\ msgs[i].role # "system"
            /\ \A j \in 1..(i - 1) : msgs[j].role = "system"
    ELSE 0

HasNonSystem(msgs) == \E i \in 1..Len(msgs) : msgs[i].role # "system"

\* "Leaving only the system message makes the prompt meaningless":
\* the service trimmer returns early on a list of two messages.
StopsAtTwo(msgs) == Len(msgs) = 2

InitTrimVars ==
    /\ impl \in {"ops", "service"}
    /\ messages \in AssembledLists
    /\ max_context_tokens \in 0..MaxBudget
    /\ messages_tokens = 0
    /\ num_context_tokens = 0
    /\ trim_pc = "trimming"
    /\ reentry = FALSE
    /\ rounds = 0

\* One pass of the eviction loop: count, then stop or delete one message.
TrimIterate ==
    /\ trim_pc = "trimming"
    /\ LET n == token_counter(messages)
           i == FirstEvictable(messages)
           after == IF impl = "ops" THEN "cleanup" ELSE "check"
       IN  /\ messages_tokens' = n
           /\ IF n <= max_context_tokens
              THEN \* the loop condition fails; ops runs the while-else
                   /\ trim_pc' = after
                   /\ num_context_tokens' =
                        IF impl = "ops" THEN n ELSE num_context_tokens
                   /\ UNCHANGED messages
              ELSE IF impl = "service" /\ StopsAtTwo(messages)
              THEN /\ trim_pc' = after
                   /\ UNCHANGED <<messages, num_context_tokens>>
              ELSE IF i # 0
              THEN /\ messages' = RemoveAt(messages, i)
                   /\ num_context_tokens' =
                        IF impl = "ops" THEN n ELSE num_context_tokens
                   /\ UNCHANGED trim_pc
              ELSE \* nothing left to delete: fall through
                   /\ trim_pc' = after
                   /\ UNCHANGED <<messages, num_context_tokens>>
    /\ UNCHANGED <<max_context_tokens, reentry, rounds>>
    /\ UNCHANGED notTrim

\* ops: "Remove any assistant messages at the end of the list", one per step.
TrimCleanup ==
    /\ trim_pc = "cleanup"
    /\ IF messages # <<>> /\ messages[Len(messages)].role = "assistant"
       THEN /\ num_context_tokens' = token_counter(messages)
            /\ messages' = SubSeq(messages, 1, Len(messages) - 1)
            /\ UNCHANGED trim_pc
       ELSE /\ trim_pc' = "check"
            /\ UNCHANGED <<messages, num_context_tokens>>
    /\ UNCHANGED <<max_context_tokens, messages_tokens, reentry, rounds>>
    /\ UNCHANGED notTrim

\* What the caller does with the trimmer's result.
\*   service: trim_messages_for_model_limit raises ContextOverflowError when
\*            the count is still over the budget (first round and re-entry).
\*   ops:     the listener shows the overflow text when no non-system message
\*            is left; on re-entry the result is not looked at.
TrimCheck ==
    /\ trim_pc = "check"
    /\ IF impl = "service"
       THEN trim_pc' = IF messages_tokens > max_context_tokens
                       THEN "overflow" ELSE "request"
       ELSE trim_pc' = IF ~reentry /\ ~HasNonSystem(messages)
                       THEN "overflow" ELSE "request"
    /\ UNCHANGED <<messages, max_context_tokens, messages_tokens,
                   num_context_tokens, reentry, rounds>>
    /\ UNCHANGED notTrim

\* A completion round that ends the session: the assistant message is appended.
RoundFinish ==
    /\ trim_pc = "request"
    /\ \E c \in Costs : messages' = Append(messages, Msg("assistant", c))
    /\ rounds' = rounds + 1
    /\ trim_pc' = "done"
    /\ UNCHANGED <<max_context_tokens, messages_tokens,
                   num_context_tokens, reentry>>
    /\ UNCHANGED notTrim

\* A completion round whose assistant message carries tool calls: the
\* assistant message and one tool message per dispatched call are appended
\* (none when every call is skipped for its missing name), and the trimmer
\* runs again.
RoundToolCalls ==
    /\ trim_pc = "request"
    /\ rounds < MaxRounds
    /\ \E c \in Costs, k \in 0..MaxToolCalls, tc \in Costs :
          messages' = Append(messages, Msg("assistant", c))
                        \o [j \in 1..k |-> Msg("tool", tc)]
    /\ rounds' = rounds + 1
    /\ reentry' = TRUE
    /\ trim_pc' = "trimming"
    /\ UNCHANGED <<max_context_tokens, messages_tokens,
                   num_context_tokens>>
    /\ UNCHANGED notTrim

(***************************************************************************)
(* Claims about the context trimmer.                                       *)
(***************************************************************************)
\* A step of the eviction loop.
InEvictionLoop == trim_pc = "trimming"

\* C2: the trimming loop terminates (every pass that stays in the loop
\* shortens the list), never lengthens the list, deletes only the earliest
\* non-system entry, and with a budget below the cost of two messages ends
\* with the system message(s) alone or with an overflow signal.
C2_TrimmingLoop ==
    /\ [][InEvictionLoop =>
            /\ Len(messages') <= Len(messages)
            /\ (trim_pc' = "trimming" => Len(messages') < Len(messages))
            /\ (messages' # messages =>
                    /\ EarliestNonSystem(messages) # 0
                    /\ messages' = RemoveAt(messages, EarliestNonSystem(messages)))
         ]_vars
    /\ []((trim_pc \in {"request", "overflow"} /\ max_context_tokens < 2) =>
            (trim_pc = "overflow" \/ ~HasNonSystem(messages)))

\* C3: no completion request is started with a list that trimming has left
\* without any non-system message; the overflow is raised (or shown) with
\* the measured count and the budget instead.
C3_NoContextlessRequest ==
    trim_pc = "request" => HasNonSystem(messages)

\* C12: the completion request of a follow-up round (the trimmer has run on
\* the list with the tool results appended) is within the budget; over the
\* budget the round ends in an overflow instead.
C12_FollowUpWithinBudget ==
    (trim_pc = "request" /\ reentry) => token_counter(messages) <= max_context_tokens

\* C13: when the trimmer has run, the list does not end with an assistant
\* message: no completion request, of the first round or of a follow-up
\* round, is started with an assistant message as its last message.
C13_NoTrailingAssistant ==
    trim_pc = "request" =>
        (messages = <<>> \/ messages[Len(messages)].role # "assistant")

\* C14: an eviction step removes exactly one message, the first one of the
\* list whose role is user, assistant or tool; every message before it, and
\* every system message, stays.
C14_EvictsFirstUserAssistantOrTool ==
    [][(InEvictionLoop /\ messages' # messages) =>
          \E i \in 1..Len(messages) :
              /\ messages[i].role \in {"user", "assistant", "tool"}
              /\ \A j \in 1..(i - 1) : messages[j].role \notin {"user", "assistant", "tool"}
              /\ messages' = RemoveAt(messages, i)
      ]_vars

\* The count the trimmer hands to its caller: messages_tokens of
\* trim_messages_for_model_limit, num_context_tokens of
\* messages_within_context_window.
ReturnedTokens == IF impl = "ops" THEN num_context_tokens ELSE messages_tokens

\* C15: the trimmer removes nothing from a list that fits the budget; a list
\* that is over the budget by exactly the cost of its earliest non-system
\* message loses exactly that message; and the count returned when the
\* trimmer returns normally is at most the budget.
C15_TrimStopsWithinBudget ==
    /\ [][(trim_pc \in {"trimming", "cleanup"}
            /\ token_counter(messages) <= max_context_tokens)
          => messages' = messages]_vars
    /\ [][(InEvictionLoop
            /\ EarliestNonSystem(messages) # 0
            /\ token_counter(messages) - max_context_tokens
                 = messages[EarliestNonSystem(messages)].cost)
          => messages' = RemoveAt(messages, EarliestNonSystem(messages))]_vars
    /\ [](trim_pc = "request" => ReturnedTokens <= max_context_tokens)


InitTrim == InitTrimVars /\ StreamIdle /\ TimeIdle /\ HandlerIdle /\ MiddlewareIdle /\ ToolIdle /\ OAuthIdle /\ BudgetIdle /\ SessionIdle /\ ClassifyIdle /\ PdfIdle /\ NamingIdle /\ TranslateIdle /\ EstimateIdle /\ PollerIdle /\ MetadataIdle /\ WindowIdle /\ NormalizeIdle /\ AnchorIdle /\ FlushIdle /\ RoundsIdle /\ FlowsIdle /\ AbandonIdle /\ HomeIdle

NextTrim ==
    \/ TrimIterate
    \/ TrimCleanup
    \/ TrimCheck
    \/ RoundFinish
    \/ RoundToolCalls

SpecTrim == InitTrim /\ [][NextTrim]_vars

(***************************************************************************)
(* STREAMING OF ONE RESPONSE                                               *)
(*                                                                         *)
(* A text is a sequence of chunk kinds; a kind stands for a delta of a     *)
(* given length in characters and in UTF-8 bytes.                          *)
(***************************************************************************)
MaxChunks == 3      \* chunks one response is cut into

SLACK_UPDATE_TEXT_BUFFER_SIZE == 20
WipByteCeiling == 3500
LoadingTextBytes == 50
LoadingCharacterBytes == 19

None == "None"

\* The deltas a chunk may carry: a newline, a word, a long paragraph of
\* ASCII text, a paragraph of three-byte characters.
Kinds == {"nl", "word", "para", "cjk"}

Chars(k) == CASE k = "nl" -> 1 [] k = "word" -> 12 [] k = "para" -> 1800
              [] k = "cjk" -> 1200

Utf8Bytes(k) == CASE k = "nl" -> 1 [] k = "word" -> 12 [] k = "para" -> 1800
                  [] k = "cjk" -> 3600

\* len(text)
StrLen(text) == SeqSum([i \in 1..Len(text) |-> Chars(text[i])])

\* len(text.encode("utf-8"))
EncodedLen(text) == SeqSum([i \in 1..Len(text) |-> Utf8Bytes(text[i])])

\* format_assistant_reply_for_slack: of its substitutions the one that applies to
\* these texts is ("^\n+", ""), which drops the leading newlines.
RECURSIVE format_assistant_reply_for_slack(_)
format_assistant_reply_for_slack(content) ==
    IF content # <<>> /\ Head(content) = "nl"
    THEN format_assistant_reply_for_slack(Tail(content))
    ELSE content

\* The text of a Slack message: a placeholder, or rendered content with or
\* without the trailing loading character.
LoadingText == [kind |-> "loading_text", body |-> <<>>, glyph |-> FALSE]
LoadingCharacter == [kind |-> "loading_character", body |-> <<>>, glyph |-> FALSE]
Rendered(body, g) == [kind |-> "content", body |-> body, glyph |-> g]

TextBytes(t) ==
    CASE t.kind = "loading_text" -> LoadingTextBytes
      [] t.kind = "loading_character" -> LoadingCharacterBytes
      [] OTHER -> EncodedLen(t.body) + (IF t.glyph THEN LoadingCharacterBytes ELSE 0)

\* chat_postMessage: the reply carries the posted text.
PostedWip(text) == [local |-> text, slack |-> text]

\* The WIP message the round renders into.
Active == Len(wip_replies)

\* build_assistant_message(): each round starts a new, empty message.
CarriedAssistantMessage(previous) == previous
build_assistant_message(previous) == <<>>

\* for t in threads: t.join() returns once every flush thread has ended.
JoinedWithoutWaiting(ths) == TRUE
Joined(ths) == \A i \in 1..Len(ths) : ths[i].at = "ended"

InitStreamVars ==
    /\ stream_pc = "read"
    /\ stream_content = <<>>
    /\ chunks_read = 0
    /\ finished = FALSE
    /\ final_chunk = FALSE
    /\ assistant_message = build_assistant_message(<<>>)
    /\ buffered_text = 0
    /\ is_response_too_long = FALSE
    /\ threads = <<>>
    /\ timed_out = FALSE
    /\ wip_replies = <<PostedWip(LoadingText)>>
    /\ appended = <<>>

\* for chunk in stream: the stream is exhausted after its finish chunk.
StreamEnds ==
    /\ stream_pc = "read"
    /\ finished
    /\ stream_pc' = "join"
    /\ UNCHANGED <<stream_content, chunks_read, finished, final_chunk,
                   assistant_message, buffered_text, is_response_too_long,
                   threads, timed_out, wip_replies, appended>>
    /\ UNCHANGED notStream

\* for chunk in stream: the next chunk arrives after the wall clock has
\* passed the timeout: raise TimeoutError.  The chunk is taken from the stream.
ChunkTimesOut ==
    /\ stream_pc = "read"
    /\ ~finished
    /\ chunks_read < MaxChunks
    /\ \E delta \in Kinds \cup {None} :
          stream_content' = IF delta = None THEN stream_content
                            ELSE Append(stream_content, delta)
    /\ chunks_read' = chunks_read + 1
    /\ timed_out' = TRUE
    /\ stream_pc' = "join"
    /\ UNCHANGED <<finished, final_chunk, assistant_message, buffered_text,
                   is_response_too_long, threads, wip_replies, appended>>
    /\ UNCHANGED notStream

\* One pass of the chunk loop up to the start of a flush thread.  The last
\* chunk the bound allows is the finish chunk.
HandleChunk ==
    /\ stream_pc = "read"
    /\ ~finished
    /\ chunks_read < MaxChunks
    /\ \E delta \in Kinds \cup {None}, fin \in BOOLEAN :
        /\ (chunks_read + 1 = MaxChunks) => fin
        /\ chunks_read' = chunks_read + 1
        /\ finished' = fin
        /\ IF delta = None
           THEN \* extract_delta_content(chunk) is None: continue
                /\ UNCHANGED <<stream_content, final_chunk, assistant_message,
                               buffered_text, threads, stream_pc>>
           ELSE /\ stream_content' = Append(stream_content, delta)
                /\ assistant_message' = Append(assistant_message, delta)
                /\ final_chunk' = fin
                /\ IF buffered_text + Chars(delta) >= SLACK_UPDATE_TEXT_BUFFER_SIZE
                   THEN \* spawn_update_reply_text, then buffered_text = ""
                        /\ threads' = Append(threads,
                               [snapshot |-> Append(assistant_message, delta),
                                at |-> "started"])
                        /\ buffered_text' = 0
                        /\ stream_pc' = "check"
                   ELSE /\ buffered_text' = buffered_text + Chars(delta)
                        /\ stream_pc' = IF fin THEN "join" ELSE "read"
                        /\ UNCHANGED threads
    /\ UNCHANGED <<is_response_too_long, timed_out, wip_replies, appended>>
    /\ UNCHANGED notStream

\* After the spawn: the overflow check against the text kept in wip_reply.
OverflowCheck ==
    /\ stream_pc = "check"
    /\ IF ~final_chunk /\ TextBytes(wip_replies[Active].local) > WipByteCeiling
       THEN /\ is_response_too_long' = TRUE
            /\ stream_pc' = "join"
       ELSE /\ stream_pc' = IF final_chunk THEN "join" ELSE "read"
            /\ UNCHANGED is_response_too_long
    /\ UNCHANGED <<stream_content, chunks_read, finished, final_chunk,
                   assistant_message, buffered_text, threads, timed_out,
                   wip_replies, appended>>
    /\ UNCHANGED notStream

\* A flush thread, update_reply_text: first it stores the rendered text in
\* wip_reply["message"]["text"] ...
ThreadStoresText(i) ==
    /\ i \in 1..Len(threads)
    /\ threads[i].at = "started"
    /\ wip_replies' = [wip_replies EXCEPT ![Active].local =
                          Rendered(format_assistant_reply_for_slack(threads[i].snapshot), FALSE)]
    /\ threads' = [threads EXCEPT ![i].at = "stored"]
    /\ UNCHANGED <<stream_pc, stream_content, chunks_read, finished, final_chunk,
                   assistant_message, buffered_text, is_response_too_long,
                   timed_out, appended>>
    /\ UNCHANGED notStream

\* ... then it calls chat_update with the loading character appended.
ThreadUpdatesSlack(i) ==
    /\ i \in 1..Len(threads)
    /\ threads[i].at = "stored"
    /\ wip_replies' = [wip_replies EXCEPT ![Active].slack =
                          Rendered(format_assistant_reply_for_slack(threads[i].snapshot), TRUE)]
    /\ threads' = [threads EXCEPT ![i].at = "ended"]
    /\ UNCHANGED <<stream_pc, stream_content, chunks_read, finished, final_chunk,
                   assistant_message, buffered_text, is_response_too_long,
                   timed_out, appended>>
    /\ UNCHANGED notStream

\* finally: for t in threads: t.join().  A TimeoutError goes on to the caller.
JoinThreads ==
    /\ stream_pc = "join"
    /\ Joined(threads)
    /\ stream_pc' = IF timed_out THEN "raised" ELSE "final"
    /\ UNCHANGED <<stream_content, chunks_read, finished, final_chunk,
                   assistant_message, buffered_text, is_response_too_long,
                   threads, timed_out, wip_replies, appended>>
    /\ UNCHANGED notStream

\* "Final update to remove the loading character after stream ends", then
\* messages.append(assistant_message).
FinalUpdate ==
    /\ stream_pc = "final"
    /\ wip_replies' =
          IF Len(assistant_message) > 0
          THEN [wip_replies EXCEPT ![Active] =
                  [local |-> Rendered(format_assistant_reply_for_slack(assistant_message), FALSE),
                   slack |-> Rendered(format_assistant_reply_for_slack(assistant_message), FALSE)]]
          ELSE wip_replies
    /\ appended' = Append(appended, assistant_message)
    /\ stream_pc' = "round_end"
    /\ UNCHANGED <<stream_content, chunks_read, finished, final_chunk,
                   assistant_message, buffered_text, is_response_too_long,
                   threads, timed_out>>
    /\ UNCHANGED notStream

\* if not is_response_too_long: break
ResponseEnds ==
    /\ stream_pc = "round_end"
    /\ ~is_response_too_long
    /\ stream_pc' = "done"
    /\ UNCHANGED <<stream_content, chunks_read, finished, final_chunk,
                   assistant_message, buffered_text, is_response_too_long,
                   threads, timed_out, wip_replies, appended>>
    /\ UNCHANGED notStream

\* The response is too long: post a new placeholder in the thread and run
\* handle_litellm_stream again on the same stream.
ContinueInNewMessage ==
    /\ stream_pc = "round_end"
    /\ is_response_too_long
    /\ wip_replies' = Append(wip_replies, PostedWip(LoadingCharacter))
    /\ assistant_message' = build_assistant_message(assistant_message)
    /\ buffered_text' = 0
    /\ is_response_too_long' = FALSE
    /\ threads' = <<>>
    /\ stream_pc' = "read"
    /\ UNCHANGED <<stream_content, chunks_read, finished, final_chunk,
                   timed_out, appended>>
    /\ UNCHANGED notStream


\* The contents of the assistant messages of the rounds, one after another.
RECURSIVE Flatten(_)
Flatten(ss) == IF ss = <<>> THEN <<>> ELSE Head(ss) \o Flatten(Tail(ss))

PastJoin == stream_pc \in {"final", "round_end", "done", "raised"}
RoundFinalized == stream_pc \in {"round_end", "done"}

\* C1: once a round has gone past the end of its chunk loop (by the finish
\* signal, the overflow break or a TimeoutError) every flush thread it
\* spawned has ended, so no intermediate update follows the final update: a
\* finalized round's WIP message shows the round's whole text without the
\* loading character, on Slack and in wip_reply.
C1_FlushesJoinedBeforeFinalUpdate ==
    /\ PastJoin => \A i \in 1..Len(threads) : threads[i].at = "ended"
    /\ (RoundFinalized /\ Len(assistant_message) > 0) =>
          /\ wip_replies[Active].slack =
                Rendered(format_assistant_reply_for_slack(assistant_message), FALSE)
          /\ wip_replies[Active].local = wip_replies[Active].slack

\* C1 happens: the final update of a round that spawned two flush threads.
C1_Witness ==
    /\ stream_pc = "round_end"
    /\ Len(threads) >= 2
    /\ wip_replies[Active].slack =
          Rendered(format_assistant_reply_for_slack(assistant_message), FALSE)

\* C7: while no TimeoutError aborts the response, the chunks' contents are
\* spread over the assistant messages of the rounds in stream order, each in
\* exactly one of them; there is one WIP message per round, and the WIP
\* message of a finalized round shows the rendering of that round's
\* assistant message and of nothing else.
C7_ChunksInExactlyOneMessage ==
    ~timed_out =>
        /\ stream_content =
              Flatten(appended) \o (IF RoundFinalized THEN <<>> ELSE assistant_message)
        /\ Len(wip_replies) = Len(appended) + (IF RoundFinalized THEN 0 ELSE 1)
        /\ \A k \in 1..Len(appended) :
              Len(appended[k]) > 0 =>
                  wip_replies[k].slack =
                      Rendered(format_assistant_reply_for_slack(appended[k]), FALSE)
        /\ \A k \in 2..Len(wip_replies) :
              wip_replies[k].slack.kind # "loading_text"

\* C7 happens: a response that overflowed twice is complete in three WIP
\* messages, each holding content.
C7_Witness ==
    /\ stream_pc = "done"
    /\ Len(wip_replies) = 3
    /\ \A k \in 1..3 : wip_replies[k].slack.kind = "content"

\* C8: when the overflow check after a flush runs while the rendered text of
\* the round exceeds 3500 bytes and the chunk is not the final one, the round
\* is marked as too long.
C8_OverflowMarkedAfterFlush ==
    [][(stream_pc = "check" /\ stream_pc' # "check") =>
          ((~final_chunk
            /\ EncodedLen(format_assistant_reply_for_slack(assistant_message)) > WipByteCeiling)
           => is_response_too_long')]_vars

\* A round that the finish signal of the stream has ended and whose final
\* update and append have run.
FinishedRoundFinalized ==
    RoundFinalized /\ finished /\ ~is_response_too_long /\ ~timed_out

\* C17: when the finish signal has ended a round, the round's WIP message
\* shows the rendering of the round's whole accumulated text without the
\* loading character, and the round has appended exactly one assistant
\* message, which holds that text.
C17_FinalUpdateAndOneMessage ==
    FinishedRoundFinalized =>
        /\ wip_replies[Active].slack =
              Rendered(format_assistant_reply_for_slack(assistant_message), FALSE)
        /\ Len(appended) = Len(wip_replies)
        /\ appended[Len(appended)] = assistant_message

\* Both generations run the same chunk loop, flush threads and continuation.
InitStream == impl \in {"ops", "service"} /\ InitStreamVars /\ TrimIdle /\ TimeIdle /\ HandlerIdle /\ MiddlewareIdle /\ ToolIdle /\ OAuthIdle /\ BudgetIdle /\ SessionIdle /\ ClassifyIdle /\ PdfIdle /\ NamingIdle /\ TranslateIdle /\ EstimateIdle /\ PollerIdle /\ MetadataIdle /\ WindowIdle /\ NormalizeIdle /\ AnchorIdle /\ FlushIdle /\ RoundsIdle /\ FlowsIdle /\ AbandonIdle /\ HomeIdle

NextStream ==
    \/ StreamEnds
    \/ ChunkTimesOut
    \/ HandleChunk
    \/ OverflowCheck
    \/ \E i \in 1..MaxChunks : ThreadStoresText(i)
    \/ \E i \in 1..MaxChunks : ThreadUpdatesSlack(i)
    \/ JoinThreads
    \/ FinalUpdate
    \/ ResponseEnds
    \/ ContinueInNewMessage

SpecStream == InitStream /\ [][NextStream]_vars

(***************************************************************************)
(* THE TIMEOUT BUDGET OF A REPLY SESSION                                   *)
(*                                                                         *)
(* The clock counts ticks, TicksPerSecond of them to a second; timeouts    *)
(* are whole seconds, as int() makes them.                                 *)
(***************************************************************************)
TicksPerSecond == 2
MaxTicks == 8       \* the clock stops here
MaxReads == 3       \* chunk reads of one session

\* LITELLM_TIMEOUT_SECONDS, as configured
TimeoutChoices == {1, 2, 3}

\* int(x) of the rational num / den: truncation toward zero
IntTrunc(num, den) ==
    IF num >= 0 THEN num \div den ELSE -((-num) \div den)

\* int(timeout_seconds - (time.time() - start_time))
RemainingSeconds ==
    IntTrunc(timeout_seconds * TicksPerSecond - (clock - start_time), TicksPerSecond)

InitTimeVars ==
    /\ time_pc = "enter"
    /\ clock = 0
    /\ session_start = -1
    /\ caller_budget \in TimeoutChoices
    /\ timeout_seconds = caller_budget
    /\ start_time = 0
    /\ round_timeout = 0
    /\ round_start = 0
    /\ reads = 0

\* Wall-clock time passes, between any two steps of the session.
Tick ==
    /\ time_pc \in {"enter", "round", "read", "overflow", "tools"}
    /\ clock < MaxTicks
    /\ clock' = clock + 1
    /\ UNCHANGED <<time_pc, session_start, caller_budget, timeout_seconds,
                   start_time, round_timeout, round_start, reads>>
    /\ UNCHANGED notTime

\* stream_litellm_reply_to_slack / consume_litellm_stream_to_write_reply is
\* entered: start_time = time.time()
EnterFrame ==
    /\ time_pc = "enter"
    /\ start_time' = clock
    /\ session_start' = IF session_start = -1 THEN clock ELSE session_start
    /\ time_pc' = "round"
    /\ UNCHANGED <<clock, caller_budget, timeout_seconds, round_timeout,
                   round_start, reads>>
    /\ UNCHANGED notTime

\* The call of handle_litellm_stream.  litellm_service.py passes the
\* remaining seconds together with the frame's start_time; litellm_ops.py
\* passes the frame's timeout_seconds and start_time.
StartRound ==
    /\ time_pc = "round"
    /\ round_timeout' = IF impl = "service" THEN RemainingSeconds
                        ELSE timeout_seconds
    /\ round_start' = start_time
    /\ time_pc' = "read"
    /\ UNCHANGED <<clock, session_start, caller_budget, timeout_seconds,
                   start_time, reads>>
    /\ UNCHANGED notTime

\* for chunk in stream: if (time.time() - start_time) > timeout_seconds:
\* raise TimeoutError().  Otherwise the chunk goes on, ends the round by
\* overflow, or ends the response with or without tool calls.
ReadChunk ==
    /\ time_pc = "read"
    /\ reads < MaxReads
    /\ reads' = reads + 1
    /\ IF clock - round_start > round_timeout * TicksPerSecond
       THEN time_pc' = "aborted"
       ELSE time_pc' \in {"read", "overflow", "tools", "done"}
    /\ UNCHANGED <<clock, session_start, caller_budget, timeout_seconds,
                   start_time, round_timeout, round_start>>
    /\ UNCHANGED notTime

\* The continuation message.  litellm_service.py loops in the same frame;
\* litellm_ops.py calls consume_litellm_stream_to_write_reply again with
\* the remaining seconds.
ContinueAfterOverflow ==
    /\ time_pc = "overflow"
    /\ IF impl = "service"
       THEN /\ time_pc' = "round"
            /\ UNCHANGED timeout_seconds
       ELSE /\ time_pc' = "enter"
            /\ timeout_seconds' = RemainingSeconds
    /\ UNCHANGED <<clock, session_start, caller_budget, start_time,
                   round_timeout, round_start, reads>>
    /\ UNCHANGED notTime

\* The tool follow-up: reply_to_slack_with_litellm with the remaining
\* seconds, which opens a new stream and enters a new frame.
FollowUpAfterTools ==
    /\ time_pc = "tools"
    /\ timeout_seconds' = RemainingSeconds
    /\ time_pc' = "enter"
    /\ UNCHANGED <<clock, session_start, caller_budget, start_time,
                   round_timeout, round_start, reads>>
    /\ UNCHANGED notTime

\* C4: a chunk read aborts the round with the timeout condition exactly
\* when the time elapsed since the session started exceeds the budget the
\* caller supplied, in whatever round of the session the read happens.
C4_AbortExactlyAtBudget ==
    [][reads' = reads + 1 =>
          ((time_pc' = "aborted") <=>
           (clock - session_start > caller_budget * TicksPerSecond))]_vars

InitTime == impl \in {"ops", "service"} /\ InitTimeVars /\ TrimIdle /\ StreamIdle /\ HandlerIdle /\ MiddlewareIdle /\ ToolIdle /\ OAuthIdle /\ BudgetIdle /\ SessionIdle /\ ClassifyIdle /\ PdfIdle /\ NamingIdle /\ TranslateIdle /\ EstimateIdle /\ PollerIdle /\ MetadataIdle /\ WindowIdle /\ NormalizeIdle /\ AnchorIdle /\ FlushIdle /\ RoundsIdle /\ FlowsIdle /\ AbandonIdle /\ HomeIdle

NextTime ==
    \/ Tick
    \/ EnterFrame
    \/ StartRound
    \/ ReadChunk
    \/ ContinueAfterOverflow
    \/ FollowUpAfterTools

SpecTime == InitTime /\ [][NextTime]_vars

(***************************************************************************)
(* THE EVENT HANDLERS respond_to_new_message AND respond_to_app_mention    *)
(*                                                                         *)
(* A handler goes through its stages; each stage that calls Slack or the   *)
(* provider may raise Timeout or another exception.                        *)
(***************************************************************************)
Events ==
    [bot_id : {"None", "this_app", "other_app"},
     channel_type : {"im", "channel"},
     thread_ts : {"None", "ts"}]

\* Where an exception raised inside the try block lands.
ExceptClause(exception) ==
    IF exception \in {"Timeout", "TimeoutError"} THEN "except_timeout"
    ELSE "except_exception"

Raisable == {"Timeout", "TimeoutError", "SlackApiError", "ValueError"}

InitHandlerVars ==
    /\ handler \in {"respond_to_new_message", "respond_to_app_mention"}
    /\ payload \in Events
    /\ channel_id \in {"None", "C1"}
    /\ handler_pc = "start"
    /\ wip_reply = "None"

\* respond_to_new_message up to the history calls: the early returns and
\* the channel_id check, the latter inside the try block.
NewMessageEntry ==
    /\ handler = "respond_to_new_message"
    /\ handler_pc = "start"
    /\ handler_pc' =
          IF payload.bot_id = "other_app" THEN "returned"
          ELSE IF payload.channel_type # "im" /\ payload.thread_ts = "None"
               THEN "returned"
          ELSE IF channel_id = "None" THEN ExceptClause("ValueError")
          ELSE "history"
    /\ UNCHANGED <<handler, payload, channel_id, wip_reply>>
    /\ UNCHANGED notHandler

\* respond_to_app_mention up to the history calls.  The call of
\* is_child_message_and_mentioned, which asks Slack for the parent message,
\* comes before the try block.
AppMentionEntry ==
    /\ handler = "respond_to_app_mention"
    /\ handler_pc = "start"
    /\ IF channel_id = "None" \/ payload.thread_ts = "None"
       THEN handler_pc' =
               IF payload.thread_ts # "None" THEN ExceptClause("ValueError")
               ELSE "assemble"
       ELSE \E parent \in {"mentions_app", "other", "raises"} :
               handler_pc' = CASE parent = "mentions_app" -> "returned"
                               [] parent = "raises" -> "propagated"
                               [] OTHER -> "history"
    /\ UNCHANGED <<handler, payload, channel_id, wip_reply>>
    /\ UNCHANGED notHandler

\* conversations_history / conversations_replies; respond_to_new_message
\* returns when the thread is not one for this app.
CollectHistory ==
    /\ handler_pc = "history"
    /\ \/ handler_pc' = "assemble"
       \/ \E e \in Raisable : handler_pc' = ExceptClause(e)
       \/ /\ handler = "respond_to_new_message"
          /\ payload.channel_type # "im"
          /\ handler_pc' = "returned"
    /\ UNCHANGED <<handler, payload, channel_id, wip_reply>>
    /\ UNCHANGED notHandler

\* Building the message list (file downloads included), then the checks
\* before post_wip_message.
AssembleMessages ==
    /\ handler_pc = "assemble"
    /\ \/ handler_pc' = IF channel_id = "None" THEN ExceptClause("ValueError")
                        ELSE "post"
       \/ \E e \in Raisable : handler_pc' = ExceptClause(e)
    /\ UNCHANGED <<handler, payload, channel_id, wip_reply>>
    /\ UNCHANGED notHandler

\* wip_reply = post_wip_message(...)
PostWipMessage ==
    /\ handler_pc = "post"
    /\ \/ handler_pc' = "trim" /\ wip_reply' = "posted"
       \/ \E e \in Raisable : handler_pc' = ExceptClause(e) /\ UNCHANGED wip_reply
    /\ UNCHANGED <<handler, payload, channel_id>>
    /\ UNCHANGED notHandler

\* Trimming, then either the overflow text (update_wip_message) or on to
\* the completion.
TrimOrReportOverflow ==
    /\ handler_pc = "trim"
    /\ \/ handler_pc' \in {"stream", "returned"}
       \/ \E e \in Raisable : handler_pc' = ExceptClause(e)
    /\ UNCHANGED <<handler, payload, channel_id, wip_reply>>
    /\ UNCHANGED notHandler

\* The completion, streaming and tool dispatch, to their end or to an
\* exception.
StreamReply ==
    /\ handler_pc = "stream"
    /\ \/ handler_pc' = "returned"
       \/ \E e \in Raisable : handler_pc' = ExceptClause(e)
    /\ UNCHANGED <<handler, payload, channel_id, wip_reply>>
    /\ UNCHANGED notHandler

\* except (Timeout, TimeoutError): with a WIP message, client.chat_update
\* with the timeout text; the call may itself raise.
HandleTimeout ==
    /\ handler_pc = "except_timeout"
    /\ IF wip_reply = "None"
       THEN handler_pc' = "returned"
       ELSE handler_pc' \in {"returned", "propagated"}
    /\ UNCHANGED <<handler, payload, channel_id, wip_reply>>
    /\ UNCHANGED notHandler

\* except Exception: logger.exception, then with a WIP message
\* client.chat_update with the failure text; the call may itself raise.
HandleException ==
    /\ handler_pc = "except_exception"
    /\ IF wip_reply = "None"
       THEN handler_pc' = "returned"
       ELSE handler_pc' \in {"returned", "propagated"}
    /\ UNCHANGED <<handler, payload, channel_id, wip_reply>>
    /\ UNCHANGED notHandler

\* C5: whatever is raised while a handler runs, and whether or not the
\* update in its error handler succeeds, no exception leaves
\* respond_to_new_message or respond_to_app_mention.
C5_HandlersNeverPropagate == handler_pc # "propagated"

InitHandler ==
    impl = "ops" /\ InitHandlerVars /\ TrimIdle /\ StreamIdle /\ TimeIdle /\ MiddlewareIdle /\ ToolIdle /\ OAuthIdle /\ BudgetIdle /\ SessionIdle /\ ClassifyIdle /\ PdfIdle /\ NamingIdle /\ TranslateIdle /\ EstimateIdle /\ PollerIdle /\ MetadataIdle /\ WindowIdle /\ NormalizeIdle /\ AnchorIdle /\ FlushIdle /\ RoundsIdle /\ FlowsIdle /\ AbandonIdle /\ HomeIdle

NextHandler ==
    \/ NewMessageEntry
    \/ AppMentionEntry
    \/ CollectHistory
    \/ AssembleMessages
    \/ PostWipMessage
    \/ TrimOrReportOverflow
    \/ StreamReply
    \/ HandleTimeout
    \/ HandleException

SpecHandler == InitHandler /\ [][NextHandler]_vars

(***************************************************************************)
(* THE before_authorize MIDDLEWARE                                         *)
(*                                                                         *)
(* Slack sends a request for what users do and for what the bot itself     *)
(* does to its messages; before_authorize sees every request first.        *)
(***************************************************************************)
MaxUserRequests == 2    \* requests caused by users
MaxBotEdits == 2        \* chat_update / chat_delete calls of reply sessions

\* A request: body["type"] says whether it is an Events API request, the
\* payload carries the event's type and subtype.
Request(body_type, type, subtype, by) ==
    [body_type |-> body_type, type |-> type, subtype |-> subtype, by |-> by]

UserRequests ==
    {Request("event_callback", t, st, "user") :
        t \in {"message", "app_mention", "reaction_added"},
        st \in {None, "file_share", "message_changed", "message_deleted"}}
    \cup {Request("block_actions", "message", "message_changed", "user")}

\* slack_bolt's is_event(body)
is_event(body_type) == body_type = "event_callback"

SkipsDeletedOnly(r) ==
    is_event(r.body_type) /\ r.type = "message" /\ r.subtype \in {"message_deleted"}
should_skip_event(r) ==
    is_event(r.body_type) /\ r.type = "message"
    /\ r.subtype \in {"message_changed", "message_deleted"}

\* app.event("app_mention") and app.event("message") are the listeners.
HasListener(r) == is_event(r.body_type) /\ r.type \in {"message", "app_mention"}

InitMiddlewareVars ==
    /\ requests = <<>>
    /\ handled = <<>>
    /\ sessions = <<>>
    /\ user_requests = 0
    /\ bot_edits = 0

\* A user does something in the workspace.
UserActs ==
    /\ user_requests < MaxUserRequests
    /\ \E r \in UserRequests : requests' = Append(requests, r)
    /\ user_requests' = user_requests + 1
    /\ UNCHANGED <<handled, sessions, bot_edits>>
    /\ UNCHANGED notMiddleware

\* A reply session edits its WIP message (chat_update while streaming) or
\* abandons it (chat_delete); Slack reports either as a message event.
SessionEditsMessage ==
    /\ sessions # <<>>
    /\ bot_edits < MaxBotEdits
    /\ \E st \in {"message_changed", "message_deleted"} :
          requests' = Append(requests, Request("event_callback", "message", st, "bot"))
    /\ bot_edits' = bot_edits + 1
    /\ UNCHANGED <<handled, sessions, user_requests>>
    /\ UNCHANGED notMiddleware

\* before_authorize on the oldest request: either BoltResponse(status=200,
\* body="") without next_(), or next_() and None.  After next_() a matching
\* listener starts a reply session.
before_authorize ==
    /\ requests # <<>>
    /\ LET r == Head(requests) IN
          IF should_skip_event(r)
          THEN /\ handled' = Append(handled,
                      [request |-> r, response |-> "200 empty", next_called |-> FALSE])
               /\ UNCHANGED sessions
          ELSE /\ handled' = Append(handled,
                      [request |-> r, response |-> None, next_called |-> TRUE])
               /\ sessions' = IF HasListener(r) THEN Append(sessions, r) ELSE sessions
    /\ requests' = Tail(requests)
    /\ UNCHANGED <<user_requests, bot_edits>>
    /\ UNCHANGED notMiddleware

IsEditOrDeletion(r) ==
    /\ r.body_type = "event_callback"
    /\ r.type = "message"
    /\ (r.subtype = "message_changed" \/ r.subtype = "message_deleted")

\* C6: a message event with subtype message_changed or message_deleted gets
\* the empty 200 response and next_() is not called; every other request is
\* passed on with next_(); so no reply session is started by such an event,
\* in particular by none that the bot's own updates and deletions caused.
C6_EditsAndDeletionsSkipped ==
    /\ \A i \in 1..Len(handled) :
          IF IsEditOrDeletion(handled[i].request)
          THEN handled[i].response = "200 empty" /\ ~handled[i].next_called
          ELSE handled[i].response = None /\ handled[i].next_called
    /\ \A i \in 1..Len(sessions) :
          ~IsEditOrDeletion(sessions[i]) /\ sessions[i].by = "user"

\* C6 happens: a session is running, the bot has edited and deleted, and
\* the requests for both have been answered.
C6_Witness ==
    /\ sessions # <<>>
    /\ \E i, j \in 1..Len(handled) :
          /\ handled[i].request.by = "bot"
          /\ handled[i].request.subtype = "message_changed"
          /\ handled[j].request.by = "bot"
          /\ handled[j].request.subtype = "message_deleted"

InitMiddleware ==
    /\ impl = "service"
    /\ InitMiddlewareVars
    /\ TrimIdle /\ StreamIdle /\ TimeIdle /\ HandlerIdle /\ ToolIdle /\ OAuthIdle /\ BudgetIdle /\ SessionIdle /\ ClassifyIdle /\ PdfIdle /\ NamingIdle /\ TranslateIdle /\ EstimateIdle /\ PollerIdle /\ MetadataIdle /\ WindowIdle /\ NormalizeIdle /\ AnchorIdle /\ FlushIdle /\ RoundsIdle /\ FlowsIdle /\ AbandonIdle /\ HomeIdle

NextMiddleware ==
    \/ UserActs
    \/ SessionEditsMessage
    \/ before_authorize

SpecMiddleware == InitMiddleware /\ [][NextMiddleware]_vars

(***************************************************************************)
(* TOOL DISPATCH                                                           *)
(*                                                                         *)
(* process_tool_calls exists three times: in litellm_ops.py, in            *)
(* litellm_service.py and, with remote (MCP) tools, in tools_service.py.   *)
(* The first two are followed by the trimmer and the follow-up completion; *)
(* the caller of the third is not part of the source tree.                 *)
(***************************************************************************)
Dispatchers == {"litellm_ops", "litellm_service", "tools_service"}

\* The functions of the tools module, and the names of the remote tools
\* (a name that holds MCP_TOOL_NAME_SEPARATOR).
ModuleFunctions == {"echo"}
McpToolNames == {"echo-0"}

is_mcp_tool_name(name) == name \in McpToolNames

\* A tool call of the model.  Its name may be missing, empty, that of a
\* module function, that of no function, or that of a remote tool; its
\* arguments decode as JSON or do not; the tool returns "hi" or raises.
ToolCallShapes ==
    [name : {None, "", "echo", "unknown", "echo-0"},
     arguments : {"json", "not json"},
     result : {"hi", "raises"}]

ToolCall(i, shape) ==
    [id |-> i, name |-> shape.name, arguments |-> shape.arguments,
     result |-> shape.result]

ToolCallLists ==
    UNION {{[i \in 1..n |-> ToolCall(i, shapes[i])] :
               shapes \in [1..n -> ToolCallShapes]} : n \in 1..MaxToolCalls}

ContextBudgets == {3, 5}

\* A message of the list; every message counts one token here.
Message(role) ==
    [role |-> role, cost |-> 1, tool_calls |-> FALSE, tool_call_id |-> 0,
     name |-> None, content |-> None]

ToolMessageWithoutCallId(tool_call_id, name, content) ==
    [Message("tool") EXCEPT !.name = name, !.content = content]
build_tool_message(tool_call_id, name, content) ==
    [Message("tool") EXCEPT !.tool_call_id = tool_call_id, !.name = name,
                            !.content = content]

\* if function_name is None (litellm_ops.py, litellm_service.py);
\* if not tool_name (tools_service.py)
IsSkipped(call) ==
    IF dispatcher = "tools_service" THEN call.name \in {None, ""}
    ELSE call.name = None

\* What the invocation of a call that is not skipped raises, None if nothing.
\* litellm_ops.py and litellm_service.py: getattr, json.loads, the call.
\* tools_service.py: json.loads, then getattr and the call, or the remote
\* call.
RaisedBy(call) ==
    IF dispatcher = "tools_service"
    THEN IF call.arguments = "not json" THEN "JSONDecodeError"
         ELSE IF ~is_mcp_tool_name(call.name) /\ call.name \notin ModuleFunctions
              THEN "AttributeError"
         ELSE IF call.result = "raises" THEN "Exception"
         ELSE None
    ELSE IF call.name \notin ModuleFunctions THEN "AttributeError"
         ELSE IF call.arguments = "not json" THEN "JSONDecodeError"
         ELSE IF call.result = "raises" THEN "Exception"
         ELSE None

\* trim_messages_to_max_context_tokens / the first loop of
\* messages_within_context_window, run to its end.
RECURSIVE EvictUntilFits(_)
EvictUntilFits(msgs) ==
    IF token_counter(msgs) <= context_budget THEN msgs
    ELSE IF impl = "service" /\ StopsAtTwo(msgs) THEN msgs
    ELSE IF FirstEvictable(msgs) # 0
         THEN EvictUntilFits(RemoveAt(msgs, FirstEvictable(msgs)))
    ELSE msgs

\* messages_within_context_window: "Remove any assistant messages at the
\* end of the list"
RECURSIVE DropTrailingAssistants(_)
DropTrailingAssistants(msgs) ==
    IF msgs # <<>> /\ msgs[Len(msgs)].role = "assistant"
    THEN DropTrailingAssistants(SubSeq(msgs, 1, Len(msgs) - 1))
    ELSE msgs

\* The round has finished with tool calls; messages.append(assistant_message)
\* has made the assistant message the last of the list.
InitToolVars ==
    /\ dispatcher \in Dispatchers
    /\ tool_calls \in ToolCallLists
    /\ tool_pc = "start"
    /\ next_call = 1
    /\ dispatch_messages = <<Message("system"), Message("user"), Message("assistant")>>
    /\ context_budget \in ContextBudgets

\* process_tool_calls up to its loop:
\* assistant_message["tool_calls"] = response_message.model_dump()["tool_calls"]
AttachToolCalls ==
    /\ tool_pc = "start"
    /\ dispatch_messages' =
          [dispatch_messages EXCEPT ![Len(dispatch_messages)].tool_calls = TRUE]
    /\ tool_pc' = "dispatch"
    /\ UNCHANGED <<dispatcher, tool_calls, next_call, context_budget>>
    /\ UNCHANGED notTool

\* process_tool_call for the next call of the loop.  Nothing catches what
\* the invocation raises: it leaves process_tool_calls.
process_tool_call ==
    /\ tool_pc = "dispatch"
    /\ LET call == tool_calls[next_call]
           last == next_call = Len(tool_calls)
       IN  IF IsSkipped(call)
           THEN /\ tool_pc' = IF last THEN "dispatched" ELSE "dispatch"
                /\ UNCHANGED dispatch_messages
           ELSE IF RaisedBy(call) # None
           THEN /\ tool_pc' = "aborted"
                /\ UNCHANGED dispatch_messages
           ELSE /\ dispatch_messages' = Append(dispatch_messages,
                        build_tool_message(call.id, call.name, call.result))
                /\ tool_pc' = IF last THEN "dispatched" ELSE "dispatch"
    /\ next_call' = next_call + 1
    /\ UNCHANGED <<dispatcher, tool_calls, context_budget>>
    /\ UNCHANGED notTool

\* After process_tool_calls: trim_messages_for_model_limit(messages), which
\* raises ContextOverflowError over budget, or
\* messages_within_context_window(messages), whose result is dropped; then
\* reply_to_slack_with_litellm with the list.
TrimBeforeFollowUp ==
    /\ tool_pc = "dispatched"
    /\ dispatcher # "tools_service"
    /\ LET evicted == EvictUntilFits(dispatch_messages) IN
          IF impl = "service"
          THEN /\ dispatch_messages' = evicted
               /\ tool_pc' = IF token_counter(evicted) > context_budget
                             THEN "overflow" ELSE "followup"
          ELSE /\ dispatch_messages' = DropTrailingAssistants(evicted)
               /\ tool_pc' = "followup"
    /\ UNCHANGED <<dispatcher, tool_calls, next_call, context_budget>>
    /\ UNCHANGED notTool

\* Where the assistant message that carries the tool calls is, 0 if nowhere.
CarrierIndex ==
    IF \E i \in 1..Len(dispatch_messages) : dispatch_messages[i].tool_calls
    THEN CHOOSE i \in 1..Len(dispatch_messages) : dispatch_messages[i].tool_calls
    ELSE 0

\* The tool messages of calls are exactly what follows the carrier, in order.
AnsweredInOrder(calls) ==
    /\ CarrierIndex # 0
    /\ Len(dispatch_messages) = CarrierIndex + Len(calls)
    /\ \A i \in 1..Len(calls) :
          LET msg == dispatch_messages[CarrierIndex + i] IN
             /\ msg.role = "tool"
             /\ msg.tool_call_id = calls[i].id
             /\ msg.name = calls[i].name
             /\ msg.content = calls[i].result

HasFunctionName(call) == ~IsSkipped(call)

C10_ToolErrorsCaught == tool_pc # "aborted"

\* C35: in the list the trimmer leaves behind, every role=tool message comes
\* after the assistant message that carries its tool call.
C35_ToolMessagesFollowTheirCall ==
    tool_pc \in {"followup", "overflow"} =>
        \A i \in 1..Len(dispatch_messages) :
            dispatch_messages[i].role = "tool" =>
                \E j \in 1..(i - 1) :
                    /\ dispatch_messages[j].role = "assistant"
                    /\ dispatch_messages[j].tool_calls
                    /\ \E k \in 1..Len(tool_calls) :
                          tool_calls[k].id = dispatch_messages[i].tool_call_id

InitTool ==
    /\ InitToolVars
    /\ impl = (IF dispatcher = "litellm_ops" THEN "ops" ELSE "service")
    /\ TrimIdle /\ StreamIdle /\ TimeIdle /\ HandlerIdle /\ MiddlewareIdle /\ OAuthIdle /\ BudgetIdle /\ SessionIdle /\ ClassifyIdle /\ PdfIdle /\ NamingIdle /\ TranslateIdle /\ EstimateIdle /\ PollerIdle /\ MetadataIdle /\ WindowIdle /\ NormalizeIdle /\ AnchorIdle /\ FlushIdle /\ RoundsIdle /\ FlowsIdle /\ AbandonIdle /\ HomeIdle

NextTool ==
    \/ AttachToolCalls
    \/ process_tool_call
    \/ TrimBeforeFollowUp

SpecTool == InitTool /\ [][NextTool]_vars

(***************************************************************************)
(* OAuth sessions of remote tool servers (mcp/oauth_tools_service.py).     *)
(* user_oauth_sessions is the module's dictionary: a function whose domain *)
(* holds the <<user, server>> pairs that have a session.  Requests run in  *)
(* threads, so a tool call is two steps (the session is read, the server   *)
(* answers) and the other operations interleave with it.                   *)
(***************************************************************************)
MaxIssued == 3

Users == {"U1", "U2"}
Servers == {"github", "notion"}
ToolLists == {<<>>, <<"search">>}

NoCall == [user |-> "", server |-> "", token |-> 0, outcome |-> "none"]

HasSession(user_id, server_name) == <<user_id, server_name>> \in DOMAIN user_oauth_sessions

\* user_oauth_sessions[user_id][server_name] = {...}
SessionsWith(user_id, server_name, session) ==
    [k \in DOMAIN user_oauth_sessions \cup {<<user_id, server_name>>} |->
        IF k = <<user_id, server_name>> THEN session ELSE user_oauth_sessions[k]]

\* A clear_user_oauth_session that leaves the dictionary as it is.
KeepsUserOAuthSession(user_id, server_name) == user_oauth_sessions

\* user_oauth_sessions[user_id].pop(server_name, None)
clear_user_oauth_session(user_id, server_name) ==
    [k \in DOMAIN user_oauth_sessions \ {<<user_id, server_name>>} |-> user_oauth_sessions[k]]

InitOAuthVars ==
    /\ user_oauth_sessions = <<>>
    /\ issued = 0
    /\ revoked = {}
    /\ last_call = NoCall
    /\ auth_failed = {}

\* The authorization flow completes: a fresh token is stored, with or without
\* the server's tool list.
set_user_oauth_session ==
    /\ issued < MaxIssued
    /\ \E user_id \in Users, server_name \in Servers, tools \in ToolLists :
          user_oauth_sessions' = SessionsWith(user_id, server_name,
                                     [token |-> issued + 1, tools |-> tools])
    /\ issued' = issued + 1
    /\ UNCHANGED <<revoked, last_call, auth_failed, notOAuth>>

\* The tool list fetched from the server is cached in the session, if there is one.
set_user_oauth_mcp_tools ==
    /\ \E user_id \in Users, server_name \in Servers, tools \in ToolLists :
          /\ HasSession(user_id, server_name)
          /\ user_oauth_sessions[<<user_id, server_name>>].tools # tools
          /\ user_oauth_sessions' = SessionsWith(user_id, server_name,
                 [user_oauth_sessions[<<user_id, server_name>>] EXCEPT !.tools = tools])
    /\ UNCHANGED <<issued, revoked, last_call, auth_failed, notOAuth>>

\* The server stops accepting a token it has issued.
ServerRevokesToken ==
    /\ \E token \in (1..issued) \ revoked : revoked' = revoked \cup {token}
    /\ UNCHANGED <<user_oauth_sessions, issued, last_call, auth_failed, notOAuth>>

\* process_oauth_mcp_tool_call up to the construction of the client: the
\* session is read; without a session, session["token"] raises KeyError.
ToolCallReadsSession ==
    /\ last_call.outcome # "running"
    /\ \E user_id \in Users, server_name \in Servers :
          last_call' =
              IF HasSession(user_id, server_name)
              THEN [user |-> user_id, server |-> server_name,
                    token |-> user_oauth_sessions[<<user_id, server_name>>].token,
                    outcome |-> "running"]
              ELSE [user |-> user_id, server |-> server_name, token |-> 0,
                    outcome |-> "KeyError"]
    /\ UNCHANGED <<user_oauth_sessions, issued, revoked, auth_failed, notOAuth>>

\* The rest of process_oauth_mcp_tool_call: the client starts and the tool is
\* called.  A revoked token makes the client fail to initialize; so can an
\* unreachable server.  The except clause clears the session and raises
\* RuntimeError; any other exception passes through; otherwise the text of
\* the result is returned.
ToolCallEnds ==
    /\ last_call.outcome = "running"
    /\ \E raised \in IF last_call.token \in revoked
                     THEN {"MCPClientInitializationError"}
                     ELSE {"MCPClientInitializationError", "MCPClientError", "None"} :
          IF raised = "MCPClientInitializationError"
          THEN /\ user_oauth_sessions' = clear_user_oauth_session(last_call.user, last_call.server)
               /\ auth_failed' = auth_failed \cup {last_call.token}
               /\ last_call' = [last_call EXCEPT !.outcome = "RuntimeError"]
          ELSE /\ last_call' = [last_call EXCEPT !.outcome =
                                   IF raised = "None" THEN "text" ELSE raised]
               /\ UNCHANGED <<user_oauth_sessions, auth_failed>>
    /\ UNCHANGED <<issued, revoked, notOAuth>>

\* C11: after a tool call met an authentication failure, no session holds the
\* token it failed with (neither the token nor the tools cached with it can
\* serve a later call), and that call ended by raising RuntimeError to its
\* caller, not by returning a text.
C11_FailedSessionRemoved ==
    /\ \A k \in DOMAIN user_oauth_sessions : user_oauth_sessions[k].token \notin auth_failed
    /\ (last_call.outcome # "running" /\ last_call.token \in auth_failed)
           => last_call.outcome = "RuntimeError"

\* A call of U1 on github failed to authenticate with a revoked token: U1 has no
\* github session any more, while U1's notion session is kept.
C11_Witness ==
    /\ last_call.outcome = "RuntimeError"
    /\ last_call.user = "U1" /\ last_call.server = "github"
    /\ last_call.token \in revoked
    /\ ~HasSession("U1", "github")
    /\ HasSession("U1", "notion")
    /\ user_oauth_sessions[<<"U1", "notion">>].tools # <<>>

InitOAuth ==
    /\ impl = "service"
    /\ InitOAuthVars
    /\ TrimIdle /\ StreamIdle /\ TimeIdle /\ HandlerIdle /\ MiddlewareIdle /\ ToolIdle /\ BudgetIdle /\ SessionIdle /\ ClassifyIdle /\ PdfIdle /\ NamingIdle /\ TranslateIdle /\ EstimateIdle /\ PollerIdle /\ MetadataIdle /\ WindowIdle /\ NormalizeIdle /\ AnchorIdle /\ FlushIdle /\ RoundsIdle /\ FlowsIdle /\ AbandonIdle /\ HomeIdle

NextOAuth ==
    \/ set_user_oauth_session
    \/ set_user_oauth_mcp_tools
    \/ ServerRevokesToken
    \/ ToolCallReadsSession
    \/ ToolCallEnds

SpecOAuth == InitOAuth /\ [][NextOAuth]_vars

(***************************************************************************)
(* The context budget: calculate_max_context_tokens with                   *)
(* estimate_tools_tokens (litellm_logic.py, litellm_service.py) and the    *)
(* head of messages_within_context_window with                             *)
(* calculate_tokens_necessary_for_tools (litellm_ops.py).  The trimmer     *)
(* runs once per round, so the computation repeats.                        *)
(***************************************************************************)
InputLimits == {4, 8, 16}
OutputReserves == {1, 4, 8}
SchemaEstimates == {2, 3}

Max(a, b) == IF a >= b THEN a ELSE b

\* return max(0, max_input_tokens - tools_tokens - max_output_tokens)
calculate_max_context_tokens(max_input, tools, max_output) ==
    Max(0, max_input - tools - max_output)

\* max_context_tokens = max_input_tokens - LITELLM_MAX_TOKENS - 1, and
\* "-= calculate_tokens_necessary_for_tools()" when a tools module is set
OpsMaxContextTokens(max_input, tools, max_output) ==
    IF tools_module_name # "None"
    THEN (max_input - max_output - 1) - tools
    ELSE max_input - max_output - 1

InitBudgetVars ==
    /\ impl \in {"ops", "service"}
    /\ budget_pc = "start"
    /\ max_input_tokens \in InputLimits
    /\ max_output_tokens \in OutputReserves
    /\ tools_module_name \in {"None", "tools"}
    /\ tools_cache = {}
    /\ tools_tokens = 0
    /\ calculated_budget = 0

\* service: the estimate is computed by two completion calls the first time
\* and served from the lru_cache afterwards; 0 without a tools module.
estimate_tools_tokens ==
    /\ budget_pc = "start"
    /\ impl = "service"
    /\ IF tools_cache # {}
       THEN /\ tools_tokens' \in tools_cache
            /\ UNCHANGED tools_cache
       ELSE \E estimate \in SchemaEstimates :
               /\ tools_tokens' = IF tools_module_name = "None" THEN 0 ELSE estimate
               /\ tools_cache' = {tools_tokens'}
    /\ budget_pc' = "estimated"
    /\ UNCHANGED <<max_input_tokens, max_output_tokens, tools_module_name,
                   calculated_budget, notBudget>>

\* ops: the same computation under the same lru_cache(maxsize=1).
calculate_tokens_necessary_for_tools ==
    /\ budget_pc = "start"
    /\ impl = "ops"
    /\ IF tools_cache # {}
       THEN /\ tools_tokens' \in tools_cache
            /\ UNCHANGED tools_cache
       ELSE \E estimate \in SchemaEstimates :
               /\ tools_tokens' = IF tools_module_name = "None" THEN 0 ELSE estimate
               /\ tools_cache' = {tools_tokens'}
    /\ budget_pc' = "estimated"
    /\ UNCHANGED <<max_input_tokens, max_output_tokens, tools_module_name,
                   calculated_budget, notBudget>>

\* The budget the eviction loop is run with.
ComputeMaxContextTokens ==
    /\ budget_pc = "estimated"
    /\ calculated_budget' =
          IF impl = "service"
          THEN calculate_max_context_tokens(max_input_tokens, tools_tokens, max_output_tokens)
          ELSE OpsMaxContextTokens(max_input_tokens, tools_tokens, max_output_tokens)
    /\ budget_pc' = "computed"
    /\ UNCHANGED <<max_input_tokens, max_output_tokens, tools_module_name,
                   tools_cache, tools_tokens, notBudget>>

\* The next round trims again.
NextRoundTrims ==
    /\ budget_pc = "computed"
    /\ budget_pc' = "start"
    /\ UNCHANGED <<max_input_tokens, max_output_tokens, tools_module_name,
                   tools_cache, tools_tokens, calculated_budget, notBudget>>

\* C16: the budget the trimmer runs with is
\* maxInputTokens - toolsTokens - reservedOutputTokens - 1, toolsTokens being
\* the tool-schema estimate, 0 when no tools module is configured.
C16_BudgetFormula ==
    budget_pc = "computed" =>
        /\ calculated_budget = max_input_tokens - tools_tokens - max_output_tokens - 1
        /\ (tools_module_name = "None" => tools_tokens = 0)

InitBudget ==
    /\ InitBudgetVars
    /\ TrimIdle /\ StreamIdle /\ TimeIdle /\ HandlerIdle /\ MiddlewareIdle /\ ToolIdle /\ OAuthIdle /\ SessionIdle /\ ClassifyIdle /\ PdfIdle /\ NamingIdle /\ TranslateIdle /\ EstimateIdle /\ PollerIdle /\ MetadataIdle /\ WindowIdle /\ NormalizeIdle /\ AnchorIdle /\ FlushIdle /\ RoundsIdle /\ FlowsIdle /\ AbandonIdle /\ HomeIdle

NextBudget ==
    \/ estimate_tools_tokens
    \/ calculate_tokens_necessary_for_tools
    \/ ComputeMaxContextTokens
    \/ NextRoundTrims

SpecBudget == InitBudget /\ [][NextBudget]_vars

(***************************************************************************)
(* A reply session across its rounds: the listener posts the first WIP     *)
(* message and calls the stream function, which runs a round, continues    *)
(* an overlong response in a new message, and after a turn with tool       *)
(* calls starts the follow-up round through reply_to_slack_with_litellm,   *)
(* which calls the stream function again.  A text is what the chunk-level  *)
(* model above calls a text, its body naming the round that produced it.   *)
(* wip_reply is a parameter of the stream function: assigning it in the    *)
(* callee leaves the listener's wip_reply, the first message, as it was.   *)
(***************************************************************************)
MaxSessionRounds == 3

RoundTag(r) == <<"round 1", "round 2", "round 3", "round 4">>[r]

Frame(wip, calls) == [wip |-> wip, too_long |-> FALSE, tool_calls |-> calls,
                      resume |-> "none"]

Top == frames[Len(frames)]

\* The frames with the innermost one replaced.
WithTop(frame) == [frames EXCEPT ![Len(frames)] = frame]

\* A wip_reply text that is compared with loading_text and never differs.
NeverDiffers(text) == FALSE

\* if wip_reply["message"]["text"] != loading_text:
DiffersFromLoadingText(text) == text # LoadingText

\* text + "\n\n" + the timeout apology or ":warning: Failed to reply: ..."
WithSuffix(text, suffix) ==
    [kind |-> text.kind, body |-> Append(text.body, suffix), glyph |-> FALSE]

\* except (Timeout, TimeoutError): the apology; except Exception: the diagnostic
SuffixFor(exception) ==
    IF exception = "TimeoutError" THEN "timeout apology" ELSE "failed to reply"

InitSessionVars ==
    /\ session_pc = "stream"
    /\ wips = <<PostedWip(LoadingText)>>
    /\ frames = <<Frame(1, FALSE)>>
    /\ round_no = 1
    /\ flushed = FALSE
    /\ in_flight = "None"
    /\ writes = {}

\* A flush thread of the running round: update_reply_text keeps the text in
\* wip_reply and shows it on Slack with the loading character.
FlushUpdate ==
    /\ session_pc = "stream"
    /\ ~flushed
    /\ wips' = [wips EXCEPT ![Top.wip] =
                  [local |-> Rendered(<<RoundTag(round_no)>>, FALSE),
                   slack |-> Rendered(<<RoundTag(round_no)>>, TRUE)]]
    /\ writes' = writes \cup {<<Top.wip, round_no>>}
    /\ flushed' = TRUE
    /\ UNCHANGED <<session_pc, frames, round_no, in_flight, notSession>>

\* raise TimeoutError() in the chunk loop; the flush threads are joined.
RoundTimesOut ==
    /\ session_pc = "stream"
    /\ in_flight' = "TimeoutError"
    /\ session_pc' = "raised"
    /\ UNCHANGED <<wips, frames, round_no, flushed, writes, notSession>>

\* Any other exception: the stream fails, a tool or the trimmer raises.
RoundRaises ==
    /\ session_pc \in {"stream", "dispatch"}
    /\ in_flight' = "Exception"
    /\ session_pc' = "raised"
    /\ UNCHANGED <<wips, frames, round_no, flushed, writes, notSession>>

\* The chunk loop ends by the finish signal or by the overflow break; the
\* final update runs when the round has text; the assistant message is
\* appended.  An overflow break follows a flush.
RoundEnds ==
    /\ session_pc = "stream"
    /\ \E has_text \in BOOLEAN, too_long \in BOOLEAN, calls \in BOOLEAN :
          /\ flushed => has_text
          /\ too_long => (flushed /\ round_no < MaxSessionRounds)
          /\ calls => round_no < MaxSessionRounds
          /\ wips' = IF has_text
                     THEN [wips EXCEPT ![Top.wip] =
                             PostedWip(Rendered(<<RoundTag(round_no)>>, FALSE))]
                     ELSE wips
          /\ writes' = IF has_text THEN writes \cup {<<Top.wip, round_no>>} ELSE writes
          /\ frames' = WithTop([Top EXCEPT !.too_long = too_long, !.tool_calls = calls])
    /\ session_pc' = "round_end"
    /\ UNCHANGED <<round_no, flushed, in_flight, notSession>>

\* The response is too long: a new message is posted with the loading
\* character.  service: the loop goes on with wip_reply rebound to it.
\* ops: the function calls itself with it and goes on to its own tool
\* check when that call has returned.
ContinueSession ==
    /\ session_pc = "round_end"
    /\ Top.too_long
    /\ wips' = Append(wips, PostedWip(LoadingCharacter))
    /\ frames' = IF impl = "service"
                 THEN WithTop(Frame(Len(wips) + 1, FALSE))
                 ELSE Append(WithTop([Top EXCEPT !.too_long = FALSE,
                                                 !.resume = "tool_check"]),
                             Frame(Len(wips) + 1, FALSE))
    /\ round_no' = round_no + 1
    /\ flushed' = FALSE
    /\ session_pc' = "stream"
    /\ UNCHANGED <<in_flight, writes, notSession>>

\* if not is_response_too_long: break
LoopEnds ==
    /\ session_pc = "round_end"
    /\ ~Top.too_long
    /\ session_pc' = "tool_check"
    /\ UNCHANGED <<wips, frames, round_no, flushed, in_flight, writes, notSession>>

\* The call returns: to the listener, or to the call that made it.
Return ==
    /\ session_pc \in {"tool_check", "return"}
    /\ session_pc = "tool_check" => ~Top.tool_calls
    /\ frames' = SubSeq(frames, 1, Len(frames) - 1)
    /\ session_pc' = IF Len(frames) = 1 THEN "ended"
                     ELSE frames[Len(frames) - 1].resume
    /\ UNCHANGED <<wips, round_no, flushed, in_flight, writes, notSession>>

\* The turn carries tool calls: "If the message has already been updated,
\* post a new one".
PlaceholderForFollowUp ==
    /\ session_pc = "tool_check"
    /\ Top.tool_calls
    /\ IF DiffersFromLoadingText(wips[Top.wip].local)
       THEN /\ wips' = Append(wips, PostedWip(LoadingText))
            /\ frames' = WithTop([Top EXCEPT !.wip = Len(wips) + 1])
       ELSE UNCHANGED <<wips, frames>>
    /\ session_pc' = "dispatch"
    /\ UNCHANGED <<round_no, flushed, in_flight, writes, notSession>>

\* process_tool_calls and the trimmer have returned:
\* reply_to_slack_with_litellm starts the follow-up round with wip_reply.
FollowUpRound ==
    /\ session_pc = "dispatch"
    /\ round_no < MaxSessionRounds
    /\ frames' = Append(WithTop([Top EXCEPT !.resume = "return"]),
                        Frame(Top.wip, FALSE))
    /\ round_no' = round_no + 1
    /\ flushed' = FALSE
    /\ session_pc' = "stream"
    /\ UNCHANGED <<wips, in_flight, writes, notSession>>

\* The listener's except clauses: chat_update of the listener's wip_reply
\* with wip_reply["message"]["text"] and the suffix.
ListenerExcept ==
    /\ session_pc = "raised"
    /\ wips' = [wips EXCEPT ![1].slack = WithSuffix(wips[1].local, SuffixFor(in_flight))]
    /\ session_pc' = "handled"
    /\ UNCHANGED <<frames, round_no, flushed, in_flight, writes, notSession>>

\* The rounds that have rendered content into message w, and the messages
\* round r has rendered content into.
RoundsIn(w) == {r \in 1..MaxSessionRounds : <<w, r>> \in writes}
MessagesOf(r) == {w \in 1..Len(wips) : <<w, r>> \in writes}

\* C18: the message a follow-up round is started with shows the loading
\* placeholder (a message that has been updated with content is replaced
\* by a newly posted placeholder first); a round renders into one message
\* only, and no message ever receives the content of two rounds.
C18_FollowUpRendersIntoFreshMessage ==
    /\ session_pc = "dispatch" => wips[Top.wip] = PostedWip(LoadingText)
    /\ \A r \in 1..MaxSessionRounds : Cardinality(MessagesOf(r)) <= 1
    /\ \A w \in 1..Len(wips) : Cardinality(RoundsIn(w)) <= 1

\* C18 happens: the first turn has shown text and carried tool calls, a
\* second message was posted as placeholder and the follow-up round is
\* rendering into it, while the first message keeps the first turn's text.
C18_Witness ==
    /\ impl = "service"
    /\ session_pc = "stream"
    /\ Len(frames) = 2 /\ frames[1].tool_calls
    /\ Len(wips) = 2 /\ Top.wip = 2
    /\ wips[1].slack = Rendered(<<RoundTag(1)>>, FALSE)
    /\ wips[2].slack = Rendered(<<RoundTag(2)>>, TRUE)

\* A text that is neither a bare placeholder nor followed by the loading
\* character: content after its final update, or any text with a suffix.
IsFinalText(text) == text.body # <<>> /\ ~text.glyph

\* C19: when the session has ended, by the return of the stream function or
\* by the listener's except clause, every message the session has posted
\* shows a final text.
C19_EveryWipFinalAtSessionEnd ==
    session_pc \in {"ended", "handled"} =>
        \A w \in 1..Len(wips) : IsFinalText(wips[w].slack)

\* C20: when the listener has handled an exception, the message of the
\* round that raised it shows the text kept for that message followed by
\* the suffix of the exception.
C20_SuffixOnCurrentWip ==
    session_pc = "handled" =>
        wips[Top.wip].slack = WithSuffix(wips[Top.wip].local, SuffixFor(in_flight))

InitSession ==
    /\ impl \in {"ops", "service"}
    /\ InitSessionVars
    /\ TrimIdle /\ StreamIdle /\ TimeIdle /\ HandlerIdle /\ MiddlewareIdle /\ ToolIdle /\ OAuthIdle /\ BudgetIdle /\ ClassifyIdle /\ PdfIdle /\ NamingIdle /\ TranslateIdle /\ EstimateIdle /\ PollerIdle /\ MetadataIdle /\ WindowIdle /\ NormalizeIdle /\ AnchorIdle /\ FlushIdle /\ RoundsIdle /\ FlowsIdle /\ AbandonIdle /\ HomeIdle

NextSession ==
    \/ FlushUpdate
    \/ RoundTimesOut
    \/ RoundRaises
    \/ RoundEnds
    \/ ContinueSession
    \/ LoopEnds
    \/ Return
    \/ PlaceholderForFollowUp
    \/ FollowUpRound
    \/ ListenerExcept

SpecSession == InitSession /\ [][NextSession]_vars

(***************************************************************************)
(* Which posts get a reply (bolt_listeners.py).  Slack reports a user's    *)
(* post as a message event, handled by respond_to_new_message, and, when   *)
(* the text of a post outside a DM mentions the app, also as an            *)
(* app_mention event, handled by respond_to_app_mention.  The two          *)
(* listeners run independently of each other.                              *)
(***************************************************************************)
Listeners == {"respond_to_new_message", "respond_to_app_mention"}

\* A post: where it is, whether it is a reply in a thread, whether its text
\* holds <@bot_user_id>, what the root message of its thread is, and whether
\* conversations_replies returns that root.
Posts ==
    {p \in [channel_type : {"im", "channel", "mpim"},
            thread_ts : {"None", "ts"},
            mentions_app : BOOLEAN,
            root : {"None", "mentions_app", "other"},
            in_replies : BOOLEAN] :
        /\ (p.thread_ts = "None") => (p.root = "None" /\ ~p.in_replies)
        /\ (p.thread_ts # "None") => p.root # "None"}

\* An is_this_app_mentioned that finds the mention in every message.
MentionedAnyway(message) == TRUE

\* return f"<@{bot_user_id}>" in parent_message_text
is_this_app_mentioned(message) == message = "mentions_app"

Accepting == {"accepted", "posted", "completed"}

InitClassifyVars ==
    /\ post \in Posts
    /\ listener_pc =
          [h \in Listeners |->
              IF h = "respond_to_new_message" THEN "start"
              ELSE IF post.mentions_app /\ post.channel_type # "im" THEN "start"
              ELSE "not_delivered"]

\* respond_to_new_message up to the fetch of the context: outside a DM a
\* post that is not in a thread is left alone; in the DM every post is for
\* this app.
NewMessageStarts ==
    /\ listener_pc["respond_to_new_message"] = "start"
    /\ listener_pc' = [listener_pc EXCEPT !["respond_to_new_message"] =
          IF post.channel_type # "im" /\ post.thread_ts = "None" THEN "skipped"
          ELSE IF post.channel_type = "im" THEN "accepted"
          ELSE "replies"]
    /\ UNCHANGED <<post, notClassify>>

\* In a channel thread: the root is looked for in the replies and, if it is
\* not among them, asked for with find_parent_message; the thread is for
\* this app when the root that was found mentions it.
NewMessageChecksRoot ==
    /\ listener_pc["respond_to_new_message"] = "replies"
    /\ \E found \in BOOLEAN :
          listener_pc' = [listener_pc EXCEPT !["respond_to_new_message"] =
              IF (post.in_replies \/ found) /\ is_this_app_mentioned(post.root)
              THEN "accepted" ELSE "skipped"]
    /\ UNCHANGED <<post, notClassify>>

\* respond_to_app_mention: is_child_message_and_mentioned leaves a reply in
\* a thread whose root mentions the app to respond_to_new_message.
AppMentionStarts ==
    /\ listener_pc["respond_to_app_mention"] = "start"
    /\ \E found \in BOOLEAN :
          listener_pc' = [listener_pc EXCEPT !["respond_to_app_mention"] =
              IF post.thread_ts # "None" /\ found /\ is_this_app_mentioned(post.root)
              THEN "skipped" ELSE "accepted"]
    /\ UNCHANGED <<post, notClassify>>

\* post_wip_message
ListenerPostsWip(h) ==
    /\ listener_pc[h] = "accepted"
    /\ listener_pc' = [listener_pc EXCEPT ![h] = "posted"]
    /\ UNCHANGED <<post, notClassify>>

\* start_receiving_litellm_response and the streaming of the reply
ListenerCompletes(h) ==
    /\ listener_pc[h] = "posted"
    /\ listener_pc' = [listener_pc EXCEPT ![h] = "completed"]
    /\ UNCHANGED <<post, notClassify>>

\* C22: a listener accepts a post outside the DM (and goes on to the WIP
\* post and the completion) only when the text of the post mentions the
\* app or the post is a reply in a thread whose root message mentions it.
C22_ChannelPostsNeedMention ==
    \A h \in Listeners :
        (listener_pc[h] \in Accepting /\ post.channel_type # "im") =>
            \/ post.mentions_app
            \/ (post.thread_ts # "None" /\ post.root = "mentions_app")

\* C22 happens: a reply without a mention, in a channel thread whose root
\* mentions the app, has been answered by respond_to_new_message.
C22_Witness ==
    /\ post.channel_type = "channel"
    /\ ~post.mentions_app
    /\ post.thread_ts # "None" /\ post.root = "mentions_app"
    /\ listener_pc["respond_to_new_message"] = "completed"
    /\ listener_pc["respond_to_app_mention"] = "not_delivered"

InitClassify ==
    /\ impl = "ops"
    /\ InitClassifyVars
    /\ TrimIdle /\ StreamIdle /\ TimeIdle /\ HandlerIdle /\ MiddlewareIdle /\ ToolIdle /\ OAuthIdle /\ BudgetIdle /\ SessionIdle /\ PdfIdle /\ NamingIdle /\ TranslateIdle /\ EstimateIdle /\ PollerIdle /\ MetadataIdle /\ WindowIdle /\ NormalizeIdle /\ AnchorIdle /\ FlushIdle /\ RoundsIdle /\ FlowsIdle /\ AbandonIdle /\ HomeIdle

NextClassify ==
    \/ NewMessageStarts
    \/ NewMessageChecksRoot
    \/ AppMentionStarts
    \/ \E h \in Listeners : ListenerPostsWip(h)
    \/ \E h \in Listeners : ListenerCompletes(h)

SpecClassify == InitClassify /\ [][NextClassify]_vars

(***************************************************************************)
(* PDF attachments of the assembled messages.  The older generation        *)
(* (bolt_listeners.py with litellm_pdf_ops.py) walks the replies oldest    *)
(* first, takes every PDF and then removes the first PDF item of the list  *)
(* until five are left.  The newer generation (message_utils.py with       *)
(* slack_pdf_service.py) walks the replies newest first and hands each     *)
(* reply the slots the newer replies left over.                            *)
(***************************************************************************)
\* pdf_slots: int = 5 / while count_pdfs() > 5
PdfSlots == 5

\* What a file of a reply can be: a PDF that downloads with a %PDF- header,
\* a PDF whose bytes lack the header, a file of another mimetype, a PDF
\* without url_private, a PDF whose download raises SlackApiError.
FileLists ==
    {<<>>, <<"pdf">>, <<"pdf", "pdf">>, <<"pdf", "pdf", "pdf">>,
     <<"png", "pdf">>, <<"pdf", "bad_header", "pdf">>,
     <<"no_url", "pdf", "pdf">>, <<"error", "pdf">>, <<"pdf", "error">>}

ReplyCounts == 1..3

\* The loop over the files of one reply, from file k on: the positions of
\* the files that became items, and whether a download raised.
RECURSIVE ExtractPdfs(_, _, _, _)
ExtractPdfs(files, k, items, slots) ==
    IF k > Len(files) \/ Len(items) >= slots
    THEN [raised |-> FALSE, items |-> items]
    ELSE IF files[k] \in {"png", "no_url"}
    THEN ExtractPdfs(files, k + 1, items, slots)
    ELSE IF files[k] = "error"
    THEN [raised |-> TRUE, items |-> items]
    ELSE IF files[k] = "bad_header"
    THEN ExtractPdfs(files, k + 1, items, slots)
    ELSE ExtractPdfs(files, k + 1, Append(items, k), slots)

build_pdf_file_items_from_slack_files(files, pdf_slots, used_pdf_slots) ==
    ExtractPdfs(files, 1, <<>>, pdf_slots - used_pdf_slots)

\* litellm_pdf_ops.py: no limit on the items of one reply
get_pdf_content_if_exists(files) ==
    ExtractPdfs(files, 1, <<>>, Len(files) + 1)

RECURSIVE count_pdfs(_)
count_pdfs(content) ==
    IF content = <<>> THEN 0 ELSE Len(Head(content)) + count_pdfs(Tail(content))

\* message["content"].remove(item) for the first PDF item of the list
RECURSIVE RemoveFirstPdf(_)
RemoveFirstPdf(content) ==
    IF content = <<>> THEN <<>>
    ELSE IF Head(content) # <<>> THEN <<Tail(Head(content))>> \o Tail(content)
    ELSE <<Head(content)>> \o RemoveFirstPdf(Tail(content))

\* A trim_pdf_content that removes nothing.
KeepsEveryPdf(content) == content

RECURSIVE trim_pdf_content(_)
trim_pdf_content(content) ==
    IF count_pdfs(content) > PdfSlots
    THEN trim_pdf_content(RemoveFirstPdf(content))
    ELSE content

InitPdfVars ==
    /\ \E n \in ReplyCounts : thread_replies \in [1..n -> FileLists]
    /\ pdf_pc = "start"
    /\ reply_idx = 0
    /\ pdf_content = [i \in 1..Len(thread_replies) |-> <<>>]

\* The assembly begins: with the oldest reply in bolt_listeners.py, with the
\* newest (reversed_replies) in convert_replies_to_messages.
AssemblyStarts ==
    /\ pdf_pc = "start"
    /\ pdf_pc' = "extract"
    /\ reply_idx' = IF impl = "ops" THEN 1 ELSE Len(thread_replies)
    /\ UNCHANGED <<thread_replies, pdf_content, notPdf>>

\* bolt_listeners.py: content += get_pdf_content_if_exists(...) for the next
\* reply; an exception of the download leaves the loop and the handler's try.
ListenerAddsPdfs ==
    /\ impl = "ops" /\ pdf_pc = "extract"
    /\ LET got == get_pdf_content_if_exists(thread_replies[reply_idx])
       IN  IF got.raised
           THEN /\ pdf_pc' = "raised"
                /\ UNCHANGED <<reply_idx, pdf_content>>
           ELSE /\ pdf_content' = [pdf_content EXCEPT ![reply_idx] = got.items]
                /\ reply_idx' = reply_idx + 1
                /\ pdf_pc' = IF reply_idx = Len(thread_replies) THEN "trim" ELSE "extract"
    /\ UNCHANGED <<thread_replies, notPdf>>

\* bolt_listeners.py: trim_pdf_content(messages) before the trim to the
\* token budget and the completion
ListenerTrimsPdfs ==
    /\ impl = "ops" /\ pdf_pc = "trim"
    /\ pdf_content' = trim_pdf_content(pdf_content)
    /\ pdf_pc' = "assembled"
    /\ UNCHANGED <<thread_replies, reply_idx, notPdf>>

\* convert_replies_to_messages: one pass of the loop over reversed_replies;
\* PDFs are looked at only while pdf_count < 5.
ConvertReply ==
    /\ impl = "service" /\ pdf_pc = "extract"
    /\ LET pdf_count == count_pdfs(pdf_content)
           got == IF pdf_count < PdfSlots
                  THEN build_pdf_file_items_from_slack_files(
                           thread_replies[reply_idx], PdfSlots, pdf_count)
                  ELSE [raised |-> FALSE, items |-> <<>>]
       IN  IF got.raised
           THEN /\ pdf_pc' = "raised"
                /\ UNCHANGED <<reply_idx, pdf_content>>
           ELSE /\ pdf_content' = [pdf_content EXCEPT ![reply_idx] = got.items]
                /\ reply_idx' = reply_idx - 1
                /\ pdf_pc' = IF reply_idx = 1 THEN "assembled" ELSE "extract"
    /\ UNCHANGED <<thread_replies, notPdf>>

\* The positions of the files of reply i that are PDFs with a valid header.
ValidPdfs(i) ==
    {k \in 1..Len(thread_replies[i]) : thread_replies[i][k] = "pdf"}

KeptPdfs(i) == {pdf_content[i][k] : k \in 1..Len(pdf_content[i])}

RECURSIVE ValidPdfsUpTo(_)
ValidPdfsUpTo(i) ==
    IF i = 0 THEN 0 ELSE Cardinality(ValidPdfs(i)) + ValidPdfsUpTo(i - 1)

ValidPdfCount == ValidPdfsUpTo(Len(thread_replies))

HasDownloadError ==
    \E i \in 1..Len(thread_replies) :
        \E k \in 1..Len(thread_replies[i]) : thread_replies[i][k] = "error"

\* C24: a download that fails costs only its own file: the assembly of a
\* thread with such a file still ends with a list, and the list holds the
\* PDFs of the other files up to the five slots.
C24_DownloadErrorSkipsOnlyThatFile ==
    (HasDownloadError /\ pdf_pc \in {"assembled", "raised"}) =>
        /\ pdf_pc = "assembled"
        /\ count_pdfs(pdf_content) = IF ValidPdfCount > PdfSlots THEN PdfSlots ELSE ValidPdfCount

InitPdf ==
    /\ impl \in {"ops", "service"}
    /\ InitPdfVars
    /\ TrimIdle /\ StreamIdle /\ TimeIdle /\ HandlerIdle /\ MiddlewareIdle /\ ToolIdle /\ OAuthIdle /\ BudgetIdle /\ SessionIdle /\ ClassifyIdle /\ NamingIdle /\ TranslateIdle /\ EstimateIdle /\ PollerIdle /\ MetadataIdle /\ WindowIdle /\ NormalizeIdle /\ AnchorIdle /\ FlushIdle /\ RoundsIdle /\ FlowsIdle /\ AbandonIdle /\ HomeIdle

NextPdf ==
    \/ AssemblyStarts
    \/ ListenerAddsPdfs
    \/ ListenerTrimsPdfs
    \/ ConvertReply

SpecPdf == InitPdf /\ [][NextPdf]_vars

(***************************************************************************)
(* Names of MCP tools (mcp/tools_logic.py, mcp/oauth_tools_logic.py,       *)
(* tools_logic.py).  A string is a sequence of one-character strings, so   *)
(* that split and join are computed as Python computes them.               *)
(***************************************************************************)
MCP_TOOL_NAME_SEPARATOR == "-"
MCP_TOOL_NAME_SEPARATOR_FOR_GEMINI == "."

\* AUTH_TYPE_ABBREVIATIONS = {"none": "n", "user_federation": "u"}
AUTH_TYPE_ABBREVIATIONS == [none |-> <<"n">>, user_federation |-> <<"u">>]

AuthTypes == {"none", "user_federation", "m2m"}
Models == {"gemini/gemini-2.0-flash", "gpt-4o"}
ServerIndexes == {0, 1, 12}

\* Characters of specification names, and of the names of Python functions.
SpecNameChars == {"a", "n", "1", "-", "."}
ClassicNameChars == {"a", "n", "1", "_"}
NameLengths == 0..3

StringsOver(chars) ==
    UNION {[1..n -> chars] : n \in NameLengths}

DigitChars == <<"0", "1", "2", "3", "4", "5", "6", "7", "8", "9">>

\* str(server_index) for an index that is not negative
RECURSIVE Str(_)
Str(n) ==
    IF n < 10 THEN <<DigitChars[n + 1]>>
    ELSE Str(n \div 10) \o <<DigitChars[(n % 10) + 1]>>

IsDigits(s) ==
    s # <<>> /\ \A i \in 1..Len(s) : \E d \in 1..10 : DigitChars[d] = s[i]

\* int(s) for a string of digits
RECURSIVE ToInt(_)
ToInt(s) ==
    IF s = <<>> THEN 0
    ELSE 10 * ToInt(SubSeq(s, 1, Len(s) - 1))
         + ((CHOOSE d \in 1..10 : DigitChars[d] = s[Len(s)]) - 1)

Contains(s, c) == \E i \in 1..Len(s) : s[i] = c

\* s.split(sep): cur is the part being read, parts the parts before it
RECURSIVE SplitFrom(_, _, _, _)
SplitFrom(s, sep, cur, parts) ==
    IF s = <<>> THEN Append(parts, cur)
    ELSE IF Head(s) = sep THEN SplitFrom(Tail(s), sep, <<>>, Append(parts, cur))
    ELSE SplitFrom(Tail(s), sep, Append(cur, Head(s)), parts)

Split(s, sep) == SplitFrom(s, sep, <<>>, <<>>)

\* sep.join(parts)
RECURSIVE Join(_, _)
Join(parts, sep) ==
    IF parts = <<>> THEN <<>>
    ELSE IF Len(parts) = 1 THEN parts[1]
    ELSE parts[1] \o <<sep>> \o Join(Tail(parts), sep)

build_mcp_tool_name(spec_name, auth_type, server_index, model) ==
    LET auth_abbrev ==
            IF auth_type \in DOMAIN AUTH_TYPE_ABBREVIATIONS
            THEN AUTH_TYPE_ABBREVIATIONS[auth_type]
            ELSE <<"m", "2", "m">>
        parts == <<auth_abbrev, Str(server_index), spec_name>>
    IN  IF model = "gemini/gemini-2.0-flash"
        THEN Join(parts, MCP_TOOL_NAME_SEPARATOR_FOR_GEMINI)
        ELSE Join(parts, MCP_TOOL_NAME_SEPARATOR)

\* return "", "", -1
InvalidName == <<<<>>, "", -1>>

\* abbreviation_to_auth_type.get(auth_abbrev)
AuthTypeOf(auth_abbrev) ==
    IF \E t \in DOMAIN AUTH_TYPE_ABBREVIATIONS : AUTH_TYPE_ABBREVIATIONS[t] = auth_abbrev
    THEN CHOOSE t \in DOMAIN AUTH_TYPE_ABBREVIATIONS : AUTH_TYPE_ABBREVIATIONS[t] = auth_abbrev
    ELSE "None"

\* One of the two branches of parse_mcp_tool_name.
ParseWith(tool_name, sep) ==
    LET parts == Split(tool_name, sep)
    IN  IF Contains(tool_name, sep) /\ Len(parts) >= 3
           /\ AuthTypeOf(parts[1]) # "None" /\ IsDigits(parts[2])
        THEN <<Join(SubSeq(parts, 3, Len(parts)), sep), AuthTypeOf(parts[1]), ToInt(parts[2])>>
        ELSE InvalidName

\* A parse_mcp_tool_name that takes the third part alone for the name.
ParseThirdPartOnly(tool_name) ==
    LET sep == IF Contains(tool_name, MCP_TOOL_NAME_SEPARATOR_FOR_GEMINI)
               THEN MCP_TOOL_NAME_SEPARATOR_FOR_GEMINI ELSE MCP_TOOL_NAME_SEPARATOR
        parts == Split(tool_name, sep)
    IN  IF Len(parts) >= 3 /\ AuthTypeOf(parts[1]) # "None" /\ IsDigits(parts[2])
        THEN <<parts[3], AuthTypeOf(parts[1]), ToInt(parts[2])>>
        ELSE InvalidName

parse_mcp_tool_name(tool_name) ==
    IF ParseWith(tool_name, MCP_TOOL_NAME_SEPARATOR_FOR_GEMINI) # InvalidName
    THEN ParseWith(tool_name, MCP_TOOL_NAME_SEPARATOR_FOR_GEMINI)
    ELSE ParseWith(tool_name, MCP_TOOL_NAME_SEPARATOR)

\* is_mcp_tool_name on the characters of a name:
\* return MCP_TOOL_NAME_SEPARATOR in name
NameHoldsSeparator(name) == Contains(name, MCP_TOOL_NAME_SEPARATOR)

InitNamingVars ==
    /\ naming_pc = "given"
    /\ \/ tool_given \in [origin : {"mcp"}, spec_name : StringsOver(SpecNameChars),
                          auth_type : AuthTypes, server_index : ServerIndexes,
                          model : Models]
       \/ tool_given \in [origin : {"classic"}, spec_name : StringsOver(ClassicNameChars),
                          auth_type : {"none"}, server_index : {0}, model : Models]
    /\ built_name = <<>>
    /\ parsed_name = InvalidName

\* transform_mcp_spec_to_classic_tool names the tool of an MCP server.
McpToolIsNamed ==
    /\ naming_pc = "given" /\ tool_given.origin = "mcp"
    /\ built_name' = build_mcp_tool_name(tool_given.spec_name, tool_given.auth_type,
                                        tool_given.server_index, tool_given.model)
    /\ naming_pc' = "built"
    /\ UNCHANGED <<tool_given, parsed_name, notNaming>>

\* A function of the tools module goes to the provider under its own name.
ClassicToolIsNamed ==
    /\ naming_pc = "given" /\ tool_given.origin = "classic"
    /\ built_name' = tool_given.spec_name
    /\ naming_pc' = "built"
    /\ UNCHANGED <<tool_given, parsed_name, notNaming>>

\* The name of a tool call is resolved.
ToolNameIsParsed ==
    /\ naming_pc = "built"
    /\ parsed_name' = parse_mcp_tool_name(built_name)
    /\ naming_pc' = "parsed"
    /\ UNCHANGED <<tool_given, built_name, notNaming>>

InitNaming ==
    /\ impl = "service"
    /\ InitNamingVars
    /\ TrimIdle /\ StreamIdle /\ TimeIdle /\ HandlerIdle /\ MiddlewareIdle /\ ToolIdle /\ OAuthIdle /\ BudgetIdle /\ SessionIdle /\ ClassifyIdle /\ PdfIdle /\ TranslateIdle /\ EstimateIdle /\ PollerIdle /\ MetadataIdle /\ WindowIdle /\ NormalizeIdle /\ AnchorIdle /\ FlushIdle /\ RoundsIdle /\ FlowsIdle /\ AbandonIdle /\ HomeIdle

NextNaming ==
    \/ McpToolIsNamed
    \/ ClassicToolIsNamed
    \/ ToolNameIsParsed

SpecNaming == InitNaming /\ [][NextNaming]_vars

(***************************************************************************)
(* The translation cache (translation_service.py with                      *)
(* translation_logic.py; i18n.py is the older copy of the same function).  *)
(* Reply sessions run on the threads of the lazy listeners and share       *)
(* _translation_result_cache; translate takes no lock.                     *)
(***************************************************************************)
MaxTranslations == 2        \* translate calls of one reply session

ReplySessions == {"s1", "s2"}
Locales == {"None", "en-US", "ja-JP", "de-DE", "xx-XX"}
Texts == {"loading", "timeout"}
\* what the completion answers (temperature=1: not the same every time)
Translations == {"v1", "v2"}

\* locale_to_lang.get(locale)
get_lang_from_locale(locale) ==
    CASE locale = "en-US" -> "English"
      [] locale = "ja-JP" -> "Japanese"
      [] locale = "de-DE" -> "German"
      [] OTHER -> "None"

\* return f"{lang}:{text}"
get_cache_key(lang, text) == <<lang, text>>

CacheKeys == {get_cache_key(lang, text) : lang \in {"Japanese", "German"}, text \in Texts}

\* return cache.get(get_cache_key(lang, original))
get_cached_translation(cache, lang, original) ==
    cache[get_cache_key(lang, original)]

\* cache[get_cache_key(lang, original)] = translated
set_cached_translation(cache, lang, original, translated) ==
    [cache EXCEPT ![get_cache_key(lang, original)] = translated]

NotTranslating ==
    [pc |-> "idle", locale |-> "None", text |-> "loading", returned |-> "None", calls |-> 0,
     asked |-> FALSE]

InitTranslateVars ==
    /\ translation_result_cache = [k \in CacheKeys |-> "None"]
    /\ translators = [s \in ReplySessions |-> NotTranslating]
    /\ completion_calls = 0

\* translate up to the completion call: the text itself for no language
\* and for English, the cached result if there is one.
TranslateBegins(s, locale, text) ==
    /\ translators[s].pc \in {"idle", "returned"}
    /\ translators[s].calls < MaxTranslations
    /\ LET lang == get_lang_from_locale(locale)
           call == [translators[s] EXCEPT !.locale = locale, !.text = text,
                                          !.calls = @ + 1, !.asked = FALSE]
       IN  translators' = [translators EXCEPT ![s] =
               IF lang \in {"None", "English"}
               THEN [call EXCEPT !.pc = "returned", !.returned = text]
               ELSE IF get_cached_translation(translation_result_cache, lang, text) # "None"
               THEN [call EXCEPT !.pc = "returned",
                       !.returned = get_cached_translation(translation_result_cache, lang, text)]
               ELSE [call EXCEPT !.pc = "completion", !.returned = "None"]]
    /\ UNCHANGED <<translation_result_cache, completion_calls, notTranslate>>

\* call_litellm_completion answers; the answer is stored and returned.
TranslateEnds(s, translated) ==
    /\ translators[s].pc = "completion"
    /\ completion_calls' = completion_calls + 1
    /\ translation_result_cache' =
          set_cached_translation(translation_result_cache,
              get_lang_from_locale(translators[s].locale), translators[s].text, translated)
    /\ translators' = [translators EXCEPT ![s] =
          [@ EXCEPT !.pc = "returned", !.returned = translated, !.asked = TRUE]]
    /\ UNCHANGED notTranslate

\* C26: a key of the translation cache that holds a value keeps that value
\* in every step, and a translate call that begins while its key holds a
\* value returns that value and makes no completion call.
C26_CacheOnlyGrows ==
    [][/\ \A k \in CacheKeys :
              translation_result_cache[k] # "None" =>
                  translation_result_cache'[k] = translation_result_cache[k]
       /\ \A s \in ReplySessions :
              LET k == get_cache_key(get_lang_from_locale(translators'[s].locale),
                                     translators'[s].text)
              IN  (translators'[s].calls # translators[s].calls /\ k \in CacheKeys
                   /\ translation_result_cache[k] # "None") =>
                      /\ translators'[s].pc = "returned"
                      /\ translators'[s].returned = translation_result_cache[k]]_vars

InitTranslate ==
    /\ impl \in {"ops", "service"}
    /\ InitTranslateVars
    /\ TrimIdle /\ StreamIdle /\ TimeIdle /\ HandlerIdle /\ MiddlewareIdle /\ ToolIdle /\ OAuthIdle /\ BudgetIdle /\ SessionIdle /\ ClassifyIdle /\ PdfIdle /\ NamingIdle /\ EstimateIdle /\ PollerIdle /\ MetadataIdle /\ WindowIdle /\ NormalizeIdle /\ AnchorIdle /\ FlushIdle /\ RoundsIdle /\ FlowsIdle /\ AbandonIdle /\ HomeIdle

NextTranslate ==
    \/ \E s \in ReplySessions, locale \in Locales, text \in Texts : TranslateBegins(s, locale, text)
    \/ \E s \in ReplySessions, translated \in Translations : TranslateEnds(s, translated)

SpecTranslate == InitTranslate /\ [][NextTranslate]_vars

(***************************************************************************)
(* The tool-schema estimate shared by the reply sessions:                  *)
(* estimate_tools_tokens (litellm_service.py) and                          *)
(* calculate_tokens_necessary_for_tools (litellm_ops.py), both under       *)
(* functools.lru_cache(maxsize=1).  lru_cache looks the key up, calls the  *)
(* function without holding its lock, and stores the result unless the     *)
(* key has been stored meanwhile.                                          *)
(***************************************************************************)
MaxTrims == 2       \* trims of one reply session

TrimSessions == {"s1", "s2"}

NotEstimating == [pc |-> "idle", returned |-> 0, trims |-> 0, cached_before |-> FALSE]

InitEstimateVars ==
    /\ estimate_module \in {"None", "tools"}
    /\ estimate_cache = {}
    /\ estimators = [s \in TrimSessions |-> NotEstimating]
    /\ probe_pairs = 0

\* The lru_cache wrapper up to the call of the function: a hit returns the
\* stored result; without a tools module the function returns 0 at once.
EstimateBegins(s) ==
    /\ estimators[s].pc \in {"idle", "returned"}
    /\ estimators[s].trims < MaxTrims
    /\ LET call == [estimators[s] EXCEPT !.trims = @ + 1,
                                         !.cached_before = estimate_cache # {}]
       IN  IF estimate_cache # {}
           THEN /\ \E hit \in estimate_cache :
                      estimators' = [estimators EXCEPT ![s] =
                          [call EXCEPT !.pc = "returned", !.returned = hit]]
                /\ UNCHANGED estimate_cache
           ELSE IF estimate_module = "None"
           THEN /\ estimators' = [estimators EXCEPT ![s] =
                      [call EXCEPT !.pc = "returned", !.returned = 0]]
                /\ estimate_cache' = {0}
           ELSE /\ estimators' = [estimators EXCEPT ![s] = [call EXCEPT !.pc = "probing"]]
                /\ UNCHANGED estimate_cache
    /\ UNCHANGED <<estimate_module, probe_pairs, notEstimate>>

\* The two probe completions have answered: the difference of their
\* prompt_tokens is returned, and stored if the cache is still empty.
EstimateEnds(s, estimate) ==
    /\ estimators[s].pc = "probing"
    /\ probe_pairs' = probe_pairs + 1
    /\ estimate_cache' = IF estimate_cache = {} THEN {estimate} ELSE estimate_cache
    /\ estimators' = [estimators EXCEPT ![s] =
          [@ EXCEPT !.pc = "returned", !.returned = estimate]]
    /\ UNCHANGED <<estimate_module, notEstimate>>

\* C27: the process makes at most one pair of probe completions, however
\* many sessions trim and however their trims interleave, and a trim that
\* begins when the estimate is cached gets the cached value.
C27_EstimateComputedOnce ==
    /\ probe_pairs <= 1
    /\ \A s \in TrimSessions :
          (estimators[s].pc = "returned" /\ estimators[s].cached_before) =>
              estimators[s].returned \in estimate_cache

InitEstimate ==
    /\ impl \in {"ops", "service"}
    /\ InitEstimateVars
    /\ TrimIdle /\ StreamIdle /\ TimeIdle /\ HandlerIdle /\ MiddlewareIdle /\ ToolIdle /\ OAuthIdle /\ BudgetIdle /\ SessionIdle /\ ClassifyIdle /\ PdfIdle /\ NamingIdle /\ TranslateIdle /\ PollerIdle /\ MetadataIdle /\ WindowIdle /\ NormalizeIdle /\ AnchorIdle /\ FlushIdle /\ RoundsIdle /\ FlowsIdle /\ AbandonIdle /\ HomeIdle

NextEstimate ==
    \/ \E s \in TrimSessions : EstimateBegins(s)
    \/ \E s \in TrimSessions, estimate \in SchemaEstimates : EstimateEnds(s, estimate)

SpecEstimate == InitEstimate /\ [][NextEstimate]_vars

(***************************************************************************)
(* The OAuth token poller and its cancellation (mcp/agentcore_service.py,  *)
(* mcp/oauth_control_service.py) for one user and server.  The flow runs   *)
(* in an event loop of its own (asyncio.run, on its own thread when a loop *)
(* is running); cancel_user_oauth_polling runs on the thread of the        *)
(* listener of the cancel button.  IdentityClient.get_token, which is not  *)
(* part of the repository, asks for the token once, and when it is given   *)
(* an authorisation URL calls on_auth_url and then poll_for_token.         *)
(***************************************************************************)
MaxPolls == 2       \* poll cycles before OAUTH_POLLING_TIMEOUT_SECONDS is over

InitPollerVars ==
    /\ flow_pc = "start"
    /\ poller_active = FALSE
    /\ poller_cancelled = FALSE
    /\ cancel_pc = "idle"
    /\ cancel_found = FALSE
    /\ user_oauth_url = "None"
    /\ token_delivered = FALSE
    /\ session_stored = FALSE
    /\ polls = 0

\* enable_user_oauth_session: set_user_oauth_url_as_processing, on_update
EnableBegins ==
    /\ flow_pc = "start"
    /\ user_oauth_url' = "processing"
    /\ flow_pc' = "identity"
    /\ UNCHANGED <<poller_active, poller_cancelled, cancel_pc, cancel_found,
                   token_delivered, session_stored, polls, notPoller>>

\* initiate_oauth_flow_with_callback up to the try: the workload identity
\* token is fetched, the poller is made and put into active_oauth_pollers.
PollerRegistered ==
    /\ flow_pc = "identity"
    /\ poller_active' = TRUE
    /\ poller_cancelled' = FALSE
    /\ flow_pc' = "registered"
    /\ UNCHANGED <<cancel_pc, cancel_found, user_oauth_url, token_delivered,
                   session_stored, polls, notPoller>>

\* "if poller.cancelled: return", then the first request of get_token: it
\* answers with the token or with an authorisation URL.
GetTokenBegins ==
    /\ flow_pc = "registered"
    /\ IF poller_cancelled
       THEN flow_pc' = "finally"
       ELSE flow_pc' \in {"got_token", "auth_url"}
    /\ UNCHANGED <<poller_active, poller_cancelled, cancel_pc, cancel_found,
                   user_oauth_url, token_delivered, session_stored, polls, notPoller>>

\* return not active_oauth_pollers[key].cancelled, False without the key
get_oauth_polling_status == poller_active /\ ~poller_cancelled

\* on_auth_url_callback: the test of get_oauth_polling_status
AuthUrlCallbackChecks ==
    /\ flow_pc = "auth_url"
    /\ flow_pc' = IF get_oauth_polling_status THEN "set_url" ELSE "sleeping"
    /\ UNCHANGED <<poller_active, poller_cancelled, cancel_pc, cancel_found,
                   user_oauth_url, token_delivered, session_stored, polls, notPoller>>

\* on_auth_url_callback: set_user_oauth_url and on_update; get_token goes on
\* to poll_for_token.
AuthUrlCallbackSets ==
    /\ flow_pc = "set_url"
    /\ user_oauth_url' = "auth_url"
    /\ flow_pc' = "sleeping"
    /\ UNCHANGED <<poller_active, poller_cancelled, cancel_pc, cancel_found,
                   token_delivered, session_stored, polls, notPoller>>

\* poll_for_token: the test of the while loop and, while it passes,
\* asyncio.sleep(OAUTH_POLLING_INTERVAL_SECONDS) and the test after it.
SleepEnds ==
    /\ flow_pc = "sleeping"
    /\ flow_pc' = IF poller_cancelled THEN "finally"
                  ELSE IF polls >= MaxPolls THEN "timeout"
                  ELSE "polling"
    /\ UNCHANGED <<poller_active, poller_cancelled, cancel_pc, cancel_found,
                   user_oauth_url, token_delivered, session_stored, polls, notPoller>>

\* resp = self.polling_func(): the token, or None while the user has not
\* authorised.
PollReturns(resp) ==
    /\ flow_pc = "polling"
    /\ polls' = polls + 1
    /\ flow_pc' = IF resp # "None" THEN "got_token" ELSE "sleeping"
    /\ UNCHANGED <<poller_active, poller_cancelled, cancel_pc, cancel_found,
                   user_oauth_url, token_delivered, session_stored, notPoller>>

\* except TimeoutError: on_timeout_callback clears the URL.
TimeoutCallback ==
    /\ flow_pc = "timeout"
    /\ user_oauth_url' = "None"
    /\ flow_pc' = "finally"
    /\ UNCHANGED <<poller_active, poller_cancelled, cancel_pc, cancel_found,
                   token_delivered, session_stored, polls, notPoller>>

\* get_token has returned: "if poller.cancelled: return", "if token:".
TokenChecked ==
    /\ flow_pc = "got_token"
    /\ flow_pc' = IF poller_cancelled THEN "finally" ELSE "deliver"
    /\ UNCHANGED <<poller_active, poller_cancelled, cancel_pc, cancel_found,
                   user_oauth_url, token_delivered, session_stored, polls, notPoller>>

\* await on_token_callback(token): set_user_oauth_session,
\* clear_user_oauth_url, on_update.
TokenCallback ==
    /\ flow_pc = "deliver"
    /\ token_delivered' = TRUE
    /\ session_stored' = TRUE
    /\ user_oauth_url' = "None"
    /\ flow_pc' = "finally"
    /\ UNCHANGED <<poller_active, poller_cancelled, cancel_pc, cancel_found,
                   polls, notPoller>>

\* finally: the key is removed from active_oauth_pollers if it is there.
FlowEnds ==
    /\ flow_pc = "finally"
    /\ poller_active' = FALSE
    /\ flow_pc' = "ended"
    /\ UNCHANGED <<poller_cancelled, cancel_pc, cancel_found, user_oauth_url,
                   token_delivered, session_stored, polls, notPoller>>

\* cancel_oauth_polling: cancel and remove the poller if the key is there.
cancel_oauth_polling ==
    /\ cancel_pc = "idle"
    /\ flow_pc \notin {"start", "ended"}
    /\ cancel_found' = poller_active
    /\ poller_cancelled' = (poller_active \/ poller_cancelled)
    /\ poller_active' = FALSE
    /\ cancel_pc' = "returned"
    /\ UNCHANGED <<flow_pc, user_oauth_url, token_delivered, session_stored,
                   polls, notPoller>>

\* cancel_user_oauth_polling after it: clear_user_oauth_url and on_update.
CancelClearsUrl ==
    /\ cancel_pc = "returned"
    /\ user_oauth_url' = "None"
    /\ cancel_pc' = "done"
    /\ UNCHANGED <<flow_pc, poller_active, poller_cancelled, cancel_found,
                   token_delivered, session_stored, polls, notPoller>>

\* C28: once cancel_oauth_polling has returned, no step of the flow calls
\* the token callback, stores a session or sets the authorisation URL, and
\* the poller makes no further call of polling_func after the sleep it is
\* in.
C28_NothingAfterCancel ==
    [][(cancel_pc # "idle") =>
          (/\ token_delivered' = token_delivered
           /\ session_stored' = session_stored
           /\ (user_oauth_url' = "auth_url" => user_oauth_url = "auth_url")
           /\ (flow_pc' = "polling" => flow_pc = "polling"))]_vars

InitPoller ==
    /\ impl = "service"
    /\ InitPollerVars
    /\ TrimIdle /\ StreamIdle /\ TimeIdle /\ HandlerIdle /\ MiddlewareIdle /\ ToolIdle /\ OAuthIdle /\ BudgetIdle /\ SessionIdle /\ ClassifyIdle /\ PdfIdle /\ NamingIdle /\ TranslateIdle /\ EstimateIdle /\ MetadataIdle /\ WindowIdle /\ NormalizeIdle /\ AnchorIdle /\ FlushIdle /\ RoundsIdle /\ FlowsIdle /\ AbandonIdle /\ HomeIdle

NextPoller ==
    \/ EnableBegins
    \/ PollerRegistered
    \/ GetTokenBegins
    \/ AuthUrlCallbackChecks
    \/ AuthUrlCallbackSets
    \/ SleepEnds
    \/ \E resp \in {"None", "token"} : PollReturns(resp)
    \/ TimeoutCallback
    \/ TokenChecked
    \/ TokenCallback
    \/ FlowEnds
    \/ cancel_oauth_polling
    \/ CancelClearsUrl

SpecPoller == InitPoller /\ [][NextPoller]_vars

(***************************************************************************)
(* Metadata of the WIP messages (slack_wip_message.py, bolt_listeners.py,  *)
(* update_reply_text of litellm_service.py and litellm_ops.py).  A first   *)
(* reply session posts its WIP message and updates it; a later reply in    *)
(* the same thread reads the replies with include_all_metadata.  Slack     *)
(* keeps the metadata of a message when chat.update names none.            *)
(***************************************************************************)
MaxFlushes == 2     \* updates of the WIP message while the reply streams

SystemTexts == {"v1", "v2"}

NoMetadata == [event_type |-> "None", messages |-> "None", user |-> "None"]

\* metadata={"event_type": "litellm-convo",
\*           "event_payload": {"messages": system_messages, "user": user}}
WipMetadata(system_messages, user) ==
    [event_type |-> "litellm-convo", messages |-> system_messages, user |-> user]

InitMetadataVars ==
    /\ meta_pc = "start"
    /\ meta_given \in [first_user : {"U1", "U2"}, first_system : SystemTexts,
                       later_user : {"U1", "U2", "None"}, later_system : SystemTexts]
    /\ wip_metadata = NoMetadata
    /\ wip_calls = <<>>
    /\ rebuilt = [system |-> "None", user |-> "None"]

post_wip_message ==
    /\ meta_pc = "start"
    /\ LET metadata == WipMetadata(meta_given.first_system, meta_given.first_user)
       IN  /\ wip_metadata' = metadata
           /\ wip_calls' = Append(wip_calls, [method |-> "chat_postMessage", metadata |-> metadata])
    /\ meta_pc' = "posted"
    /\ UNCHANGED <<meta_given, rebuilt, notMetadata>>

\* The listener's update when nothing but system messages is left after
\* the trim.
update_wip_message ==
    /\ meta_pc = "posted"
    /\ LET metadata == WipMetadata(meta_given.first_system, meta_given.first_user)
       IN  /\ wip_metadata' = metadata
           /\ wip_calls' = Append(wip_calls, [method |-> "chat_update", metadata |-> metadata])
    /\ meta_pc' = "finished"
    /\ UNCHANGED <<meta_given, rebuilt, notMetadata>>

\* client.chat_update(channel=channel, ts=..., text=text), while the reply
\* streams (final = FALSE) and at its end; the timeout and failure texts of
\* the listener are sent by the same call.
update_reply_text(final) ==
    /\ meta_pc \in {"posted", "streaming"}
    /\ final \/ Len(wip_calls) <= MaxFlushes
    /\ wip_calls' = Append(wip_calls, [method |-> "chat_update", metadata |-> NoMetadata])
    /\ meta_pc' = IF final THEN "finished" ELSE "streaming"
    /\ UNCHANGED <<meta_given, wip_metadata, rebuilt, notMetadata>>

\* respond_to_new_message for a later post in the thread (a channel thread):
\* the messages and the user are taken from a reply whose metadata has the
\* event type "litellm"; without one the system message is built anew and
\* the user is the one of the context.
LaterReplyRebuilds ==
    /\ meta_pc = "finished"
    /\ LET found == wip_metadata.event_type = "litellm"
           restored == IF found THEN wip_metadata.messages ELSE "None"
           user_id == IF found /\ wip_metadata.user # "None" THEN wip_metadata.user
                      ELSE meta_given.later_user
       IN  rebuilt' = [system |-> IF restored = "None" THEN meta_given.later_system
                                  ELSE restored,
                       user |-> user_id]
    /\ meta_pc' = "rebuilt"
    /\ UNCHANGED <<meta_given, wip_metadata, wip_calls, notMetadata>>

\* C29: every chat_postMessage and chat_update made for a WIP message
\* carries the metadata with the event type, the system messages and the
\* user, and a later reply in the thread starts from the system message and
\* the user of that metadata.
C29_WipCallsCarryMetadata ==
    /\ \A i \in 1..Len(wip_calls) :
          wip_calls[i].metadata = WipMetadata(meta_given.first_system, meta_given.first_user)
    /\ meta_pc = "rebuilt" =>
          rebuilt = [system |-> meta_given.first_system, user |-> meta_given.first_user]

InitMetadata ==
    /\ impl \in {"ops", "service"}
    /\ InitMetadataVars
    /\ TrimIdle /\ StreamIdle /\ TimeIdle /\ HandlerIdle /\ MiddlewareIdle /\ ToolIdle /\ OAuthIdle /\ BudgetIdle /\ SessionIdle /\ ClassifyIdle /\ PdfIdle /\ NamingIdle /\ TranslateIdle /\ EstimateIdle /\ PollerIdle /\ WindowIdle /\ NormalizeIdle /\ AnchorIdle /\ FlushIdle /\ RoundsIdle /\ FlowsIdle /\ AbandonIdle /\ HomeIdle

NextMetadata ==
    \/ post_wip_message
    \/ update_wip_message
    \/ \E final \in BOOLEAN : update_reply_text(final)
    \/ LaterReplyRebuilds

SpecMetadata == InitMetadata /\ [][NextMetadata]_vars

(***************************************************************************)
(* The system message of the lists sent to the provider                    *)
(* (bolt_listeners.py with litellm_ops.py): the listener assembles the     *)
(* list, the trimmer cuts it in place, the list is sent, and after a turn  *)
(* with tool calls the assistant and tool messages are appended, the list  *)
(* is cut again and sent again.  Every message costs one token.            *)
(***************************************************************************)
MaxWindowRounds == 2    \* completion rounds of one reply session

WindowBudgets == 0..4

\* A reply of the thread: who wrote it, and the event type of its metadata
\* ("litellm-convo" is what post_wip_message writes, "litellm" what the
\* listener looks for); the payload of a bot's metadata holds the system
\* message.
ThreadReplies ==
    [author : {"user"}, event_type : {"None"}]
        \cup [author : {"bot"}, event_type : {"None", "litellm-convo", "litellm"}]

\* The first loop of messages_within_context_window, run to its end with
\* the budget given.
RECURSIVE EvictToBudget(_, _)
EvictToBudget(msgs, budget) ==
    IF token_counter(msgs) <= budget THEN msgs
    ELSE IF FirstEvictable(msgs) # 0
         THEN EvictToBudget(RemoveAt(msgs, FirstEvictable(msgs)), budget)
    ELSE msgs

\* The role a reply is given: assistant for the bot's own, user otherwise.
RECURSIVE RepliesAsMessages(_)
RepliesAsMessages(replies) ==
    IF replies = <<>> THEN <<>>
    ELSE <<Msg(IF Head(replies).author = "bot" THEN "assistant" ELSE "user", 1)>>
         \o RepliesAsMessages(Tail(replies))

\* The loop over messages_in_context of respond_to_new_message: messages is
\* replaced by the payload of every reply whose event type is "litellm".
RECURSIVE RestoredFromMetadata(_, _)
RestoredFromMetadata(replies, restored) ==
    IF replies = <<>> THEN restored
    ELSE RestoredFromMetadata(Tail(replies),
             IF Head(replies).event_type = "litellm"
             THEN [found |-> TRUE, messages |-> <<Msg("system", 1)>>]
             ELSE restored)

CountRole(msgs, role) == Cardinality({i \in 1..Len(msgs) : msgs[i].role = role})

InitWindowVars ==
    /\ window_pc = "start"
    /\ window_given \in [listener : Listeners, in_dm : BOOLEAN,
                         replies : SeqsOf(ThreadReplies, 1, 3), budget : WindowBudgets]
    /\ window_given.listener = "respond_to_app_mention" => ~window_given.in_dm
    /\ window_given.replies[Len(window_given.replies)].author = "user"
    /\ window = <<>>
    /\ sent = <<>>
    /\ window_round = 0

\* respond_to_app_mention: messages = [system_message], then the replies.
AppMentionAssembles ==
    /\ window_pc = "start" /\ window_given.listener = "respond_to_app_mention"
    /\ window' = <<Msg("system", 1)>> \o RepliesAsMessages(window_given.replies)
    /\ window_pc' = "assembled"
    /\ UNCHANGED <<window_given, sent, window_round, notWindow>>

\* respond_to_new_message: messages from the metadata, the system message
\* put in front when the conversation is new (or in the DM) and the list
\* holds none, then the replies.
NewMessageAssembles ==
    /\ window_pc = "start" /\ window_given.listener = "respond_to_new_message"
    /\ LET restored == RestoredFromMetadata(window_given.replies,
                                            [found |-> FALSE, messages |-> <<>>])
           with_system ==
               IF (window_given.in_dm \/ ~restored.found)
                  /\ CountRole(restored.messages, "system") = 0
               THEN <<Msg("system", 1)>> \o restored.messages
               ELSE restored.messages
       IN  window' = with_system \o RepliesAsMessages(window_given.replies)
    /\ window_pc' = "assembled"
    /\ UNCHANGED <<window_given, sent, window_round, notWindow>>

\* messages_within_context_window cuts the list in place; the listener sends
\* nothing when only system messages are left, the follow-up round sends
\* what is left.
WindowTrimmedAndSent ==
    /\ window_pc \in {"assembled", "reentry"}
    /\ LET cut == DropTrailingAssistants(EvictToBudget(window, window_given.budget))
       IN  /\ window' = cut
           /\ IF window_pc = "assembled" /\ ~HasNonSystem(cut)
              THEN /\ window_pc' = "too_long"
                   /\ UNCHANGED <<sent, window_round>>
              ELSE /\ window_pc' = "streaming"
                   /\ sent' = Append(sent, cut)
                   /\ window_round' = window_round + 1
    /\ UNCHANGED <<window_given, notWindow>>

\* The turn ends with tool calls: messages.append(assistant_message) and a
\* tool message for every call that has a function name.
WindowToolCalls(named) ==
    /\ window_pc = "streaming"
    /\ window_round < MaxWindowRounds
    /\ window' = window \o <<Msg("assistant", 1)>>
                        \o [k \in 1..named |-> Msg("tool", 1)]
    /\ window_pc' = "reentry"
    /\ UNCHANGED <<window_given, sent, window_round, notWindow>>

\* C30: every list sent to the provider begins with a system message and
\* holds one system message only, on the first round and after tool calls,
\* in new conversations and in threads with WIP messages of the bot.
C30_SystemMessageFirstAndOnce ==
    \A i \in 1..Len(sent) :
        /\ sent[i] # <<>>
        /\ sent[i][1].role = "system"
        /\ CountRole(sent[i], "system") = 1

\* C30 happens: in a channel thread with a WIP message of the bot, a list
\* the trimmer had to cut was sent, and a second one after tool calls.
C30_Witness ==
    /\ Len(sent) = 2
    /\ ~window_given.in_dm
    /\ \E k \in 1..Len(window_given.replies) :
          window_given.replies[k].event_type = "litellm-convo"
    /\ Len(sent[1]) < 1 + Len(window_given.replies)
    /\ CountRole(sent[2], "tool") > 0

InitWindow ==
    /\ impl = "ops"
    /\ InitWindowVars
    /\ TrimIdle /\ StreamIdle /\ TimeIdle /\ HandlerIdle /\ MiddlewareIdle /\ ToolIdle /\ OAuthIdle /\ BudgetIdle /\ SessionIdle /\ ClassifyIdle /\ PdfIdle /\ NamingIdle /\ TranslateIdle /\ EstimateIdle /\ PollerIdle /\ MetadataIdle /\ NormalizeIdle /\ AnchorIdle /\ FlushIdle /\ RoundsIdle /\ FlowsIdle /\ AbandonIdle /\ HomeIdle

NextWindow ==
    \/ AppMentionAssembles
    \/ NewMessageAssembles
    \/ WindowTrimmedAndSent
    \/ \E named \in 0..2 : WindowToolCalls(named)

SpecWindow == InitWindow /\ [][NextWindow]_vars

\* A text is a sequence of tokens.  "mention" is the bot's own mention
\* <@BOT>, "secret" a string one of REDACT_PATTERNS matches, "escaped" an
\* HTML entity (&lt;), "escaped_mention" the bot's mention written with
\* entities (&lt;@BOT&gt;), "bold" a piece of Slack markup (*x*) and "word"
\* anything else; "redacted", "unescaped" and "markdown" are what the steps
\* put in their place, and "author" is the '<@author>: ' prefix.
TextTokens == {"word", "mention", "secret", "escaped_mention", "bold"}

HistoryTexts == {<<>>} \cup {<<a>> : a \in TextTokens}
                  \cup {<<a, b>> : a, b \in TextTokens}

Histories == {<<t>> : t \in HistoryTexts}
               \cup {<<t, u>> : t \in {<<"word">>, <<"mention", "word">>},
                                u \in HistoryTexts}

NormalizingPaths == {"convert_replies_to_messages", "respond_to_new_message",
                     "respond_to_app_mention"}

MapTokens(text, from, to) ==
    [i \in 1..Len(text) |-> IF text[i] = from THEN to ELSE text[i]]

\* re.sub(f"<@{context.bot_user_id}>\\s*", "", text)
strip_bot_mention(text) == SelectSeq(text, LAMBDA t : t # "mention")

maybe_redact_string(text, redaction_enabled) ==
    IF redaction_enabled THEN MapTokens(text, "secret", "redacted") ELSE text

\* &lt; &gt; &amp; become < > &
format_litellm_message_content(text) ==
    MapTokens(text, "escaped_mention", "mention")

maybe_slack_to_markdown(text, translate_markdown) ==
    IF translate_markdown THEN MapTokens(text, "bold", "markdown") ELSE text

WithAuthor(text) == <<"author">> \o text

\* redaction, unescaping, markup and the prefix, which every path applies
\* in this order
RedactToPrefix(text) ==
    WithAuthor(maybe_slack_to_markdown(
        format_litellm_message_content(
            maybe_redact_string(text, norm_given.redaction)),
        norm_given.markdown))

InitNormalizeVars ==
    /\ norm_pc = "given"
    /\ norm_given \in [path : NormalizingPaths, redaction : BOOLEAN,
                       markdown : BOOLEAN, texts : Histories]
    /\ model_texts = <<>>

\* message_utils.convert_replies_to_messages: the mention is stripped from
\* every reply
convert_replies_to_messages ==
    /\ impl = "service"
    /\ norm_pc = "given"
    /\ norm_given.path = "convert_replies_to_messages"
    /\ model_texts' = [i \in 1..Len(norm_given.texts) |->
                         RedactToPrefix(strip_bot_mention(norm_given.texts[i]))]
    /\ norm_pc' = "assembled"
    /\ UNCHANGED <<norm_given>>
    /\ UNCHANGED notNormalize

\* bolt_listeners.respond_to_new_message: the mention is stripped from the
\* first message of the context only (idx == 0)
NewMessageNormalizes ==
    /\ impl = "ops"
    /\ norm_pc = "given"
    /\ norm_given.path = "respond_to_new_message"
    /\ model_texts' = [i \in 1..Len(norm_given.texts) |->
                         RedactToPrefix(IF i = 1
                                        THEN strip_bot_mention(norm_given.texts[i])
                                        ELSE norm_given.texts[i])]
    /\ norm_pc' = "assembled"
    /\ UNCHANGED <<norm_given>>
    /\ UNCHANGED notNormalize

\* bolt_listeners.respond_to_app_mention: a mention at the top level is
\* stripped from the one text there is; the replies of a thread go through
\* the loop, which strips nothing
AppMentionNormalizes ==
    /\ impl = "ops"
    /\ norm_pc = "given"
    /\ norm_given.path = "respond_to_app_mention"
    /\ model_texts' = [i \in 1..Len(norm_given.texts) |->
                         RedactToPrefix(IF Len(norm_given.texts) = 1
                                        THEN strip_bot_mention(norm_given.texts[i])
                                        ELSE norm_given.texts[i])]
    /\ norm_pc' = "assembled"
    /\ UNCHANGED <<norm_given>>
    /\ UNCHANGED notNormalize

InitNormalize ==
    /\ InitNormalizeVars
    /\ impl = IF norm_given.path = "convert_replies_to_messages"
              THEN "service" ELSE "ops"
    /\ TrimIdle /\ StreamIdle /\ TimeIdle /\ HandlerIdle /\ MiddlewareIdle /\ ToolIdle /\ OAuthIdle /\ BudgetIdle /\ SessionIdle /\ ClassifyIdle /\ PdfIdle /\ NamingIdle /\ TranslateIdle /\ EstimateIdle /\ PollerIdle /\ MetadataIdle /\ WindowIdle /\ AnchorIdle /\ FlushIdle /\ RoundsIdle /\ FlowsIdle /\ AbandonIdle /\ HomeIdle

NextNormalize ==
    \/ convert_replies_to_messages
    \/ NewMessageNormalizes
    \/ AppMentionNormalizes

SpecNormalize == InitNormalize /\ [][NextNormalize]_vars

\* C31: every text of the history reaches the model as the mention strip,
\* then the redaction, then the HTML unescape, then the markup conversion,
\* then the '<author>: ' prefix made it, and with the redaction enabled no
\* text that reaches the model still holds a secret.
C31_HistoryTextsNormalizedInOrder ==
    norm_pc = "assembled" =>
        /\ Len(model_texts) = Len(norm_given.texts)
        /\ \A i \in 1..Len(model_texts) :
              /\ model_texts[i] =
                    WithAuthor(maybe_slack_to_markdown(
                        format_litellm_message_content(
                            maybe_redact_string(
                                strip_bot_mention(norm_given.texts[i]),
                                norm_given.redaction)),
                        norm_given.markdown))
              /\ norm_given.redaction =>
                    \A k \in 1..Len(model_texts[i]) :
                        model_texts[i][k] # "secret"

\* A reply of a thread carries the timestamp of the thread's root, which is
\* not its own.
Timestamps == {"123.456", "789.789", "999.999"}

ChannelTypes == {"im", "channel", "group", "mpim"}

AnchorPaths == {"determine_thread_ts_to_reply", "respond_to_new_message",
                "respond_to_app_mention"}

is_post_in_dm(p) == p.channel_type = "im"

determine_thread_ts_to_reply(p) ==
    IF p.thread_ts = None /\ ~is_post_in_dm(p) THEN p.ts ELSE p.thread_ts

\* respond_to_new_message returns before it replies for a top-level post
\* outside the DM; app_mention events do not come from the DM
InitAnchorVars ==
    /\ anchor_pc = "given"
    /\ anchor_given \in
          {g \in [path : AnchorPaths, channel_type : ChannelTypes,
                  thread_ts : {None} \cup Timestamps, ts : Timestamps] :
              /\ g.thread_ts # g.ts
              /\ g.path = "respond_to_new_message" =>
                    (g.channel_type = "im" \/ g.thread_ts # None)
              /\ g.path = "respond_to_app_mention" => g.channel_type # "im"}
    /\ anchor = None

PostOf(g) ==
    [channel_type |-> g.channel_type, thread_ts |-> g.thread_ts, ts |-> g.ts]

ReplyAnchoredByLogic ==
    /\ impl = "service"
    /\ anchor_pc = "given"
    /\ anchor_given.path = "determine_thread_ts_to_reply"
    /\ anchor' = determine_thread_ts_to_reply(PostOf(anchor_given))
    /\ anchor_pc' = "posted"
    /\ UNCHANGED <<anchor_given>>
    /\ UNCHANGED notAnchor

\* thread_ts = payload.get("thread_ts") if is_in_dm_with_bot else payload["ts"]
NewMessageAnchorsReply ==
    /\ impl = "ops"
    /\ anchor_pc = "given"
    /\ anchor_given.path = "respond_to_new_message"
    /\ anchor' = IF anchor_given.channel_type = "im"
                 THEN anchor_given.thread_ts ELSE anchor_given.ts
    /\ anchor_pc' = "posted"
    /\ UNCHANGED <<anchor_given>>
    /\ UNCHANGED notAnchor

\* post_wip_message(..., thread_ts=payload["ts"], ...)
AppMentionAnchorsReply ==
    /\ impl = "ops"
    /\ anchor_pc = "given"
    /\ anchor_given.path = "respond_to_app_mention"
    /\ anchor' = anchor_given.ts
    /\ anchor_pc' = "posted"
    /\ UNCHANGED <<anchor_given>>
    /\ UNCHANGED notAnchor

InitAnchor ==
    /\ InitAnchorVars
    /\ impl = IF anchor_given.path = "determine_thread_ts_to_reply"
              THEN "service" ELSE "ops"
    /\ TrimIdle /\ StreamIdle /\ TimeIdle /\ HandlerIdle /\ MiddlewareIdle /\ ToolIdle /\ OAuthIdle /\ BudgetIdle /\ SessionIdle /\ ClassifyIdle /\ PdfIdle /\ NamingIdle /\ TranslateIdle /\ EstimateIdle /\ PollerIdle /\ MetadataIdle /\ WindowIdle /\ NormalizeIdle /\ FlushIdle /\ RoundsIdle /\ FlowsIdle /\ AbandonIdle /\ HomeIdle

NextAnchor ==
    \/ ReplyAnchoredByLogic
    \/ NewMessageAnchorsReply
    \/ AppMentionAnchorsReply

SpecAnchor == InitAnchor /\ [][NextAnchor]_vars

\* C32: a reply to a post inside a thread is posted in that thread, in a
\* channel and in the DM alike; a reply to a top-level post of a channel is
\* anchored at the post's own timestamp; a reply to a top-level message of
\* the DM has no anchor.
C32_ThreadAnchor ==
    anchor_pc = "posted" =>
        anchor = IF anchor_given.thread_ts # None THEN anchor_given.thread_ts
                 ELSE IF anchor_given.channel_type # "im" THEN anchor_given.ts
                 ELSE None

\* The chunks of a stream carry a piece of content, or none and a
\* finish_reason.  Content is a sequence of characters.
HelloText == <<"H", "e", "l", "l", "o">>

CommaText == <<",", " ">>

WorldText == <<"w", "o", "r", "l", "d">>

ContentChunk(text) == [has_content |-> TRUE, content |-> text, finish |-> FALSE]

FinishChunk == [has_content |-> FALSE, content |-> <<>>, finish |-> TRUE]

ChunkTexts == {HelloText, CommaText, WorldText}

ChunkStreams ==
    {<<ContentChunk(a), FinishChunk>> : a \in ChunkTexts}
    \cup {<<ContentChunk(a), ContentChunk(b), FinishChunk>> :
             a, b \in ChunkTexts}
    \cup {<<ContentChunk(a), ContentChunk(b), ContentChunk(c), FinishChunk>> :
             a, b, c \in ChunkTexts}

\* the threshold of the scenario and DEFAULT_SLACK_UPDATE_TEXT_BUFFER_SIZE
BufferSizes == {5, 20}

OnlyOverThreshold(buffered, buffer_size) == Len(buffered) > buffer_size

\* len(buffered_text) >= SLACK_UPDATE_TEXT_BUFFER_SIZE
ReachesBufferSize(buffered, buffer_size) == Len(buffered) >= buffer_size

InitFlushVars ==
    /\ flush_pc = "read"
    /\ flush_given \in [threshold : BufferSizes, chunks : ChunkStreams]
    /\ flush_pos = 0
    /\ flush_content = <<>>
    /\ flush_buffered = <<>>
    /\ flushes = <<>>

\* One pass of the chunk loop; the flush thread it starts is joined before
\* the final update, so its text is written before that of the final update.
ScenarioReadsChunk ==
    /\ flush_pc = "read"
    /\ flush_pos < Len(flush_given.chunks)
    /\ LET chunk == flush_given.chunks[flush_pos + 1]
           buffered == flush_buffered \o chunk.content
           content == flush_content \o chunk.content
       IN  /\ flush_pos' = flush_pos + 1
           /\ IF ~chunk.has_content
              THEN \* continue; the stream ends behind its last chunk
                   /\ flush_pc' = IF flush_pos + 1 = Len(flush_given.chunks)
                                  THEN "joined" ELSE "read"
                   /\ UNCHANGED <<flush_content, flush_buffered, flushes>>
              ELSE /\ flush_content' = content
                   /\ IF ReachesBufferSize(buffered, flush_given.threshold)
                      THEN /\ flushes' = Append(flushes,
                                  [text |-> Rendered(content, TRUE),
                                   chunk |-> flush_pos + 1])
                           /\ flush_buffered' = <<>>
                      ELSE /\ flush_buffered' = buffered
                           /\ UNCHANGED flushes
                   /\ flush_pc' = IF chunk.finish
                                     \/ flush_pos + 1 = Len(flush_given.chunks)
                                  THEN "joined" ELSE "read"
    /\ UNCHANGED <<flush_given>>
    /\ UNCHANGED notFlush

\* The update after the loop, without the loading character.
ScenarioFinalUpdate ==
    /\ flush_pc = "joined"
    /\ flushes' = IF Len(flush_content) > 0
                  THEN Append(flushes, [text |-> Rendered(flush_content, FALSE),
                                        chunk |-> 0])
                  ELSE flushes
    /\ flush_pc' = "done"
    /\ UNCHANGED <<flush_given, flush_pos, flush_content, flush_buffered>>
    /\ UNCHANGED notFlush

InitFlush ==
    /\ impl \in {"ops", "service"}
    /\ InitFlushVars
    /\ TrimIdle /\ StreamIdle /\ TimeIdle /\ HandlerIdle /\ MiddlewareIdle /\ ToolIdle /\ OAuthIdle /\ BudgetIdle /\ SessionIdle /\ ClassifyIdle /\ PdfIdle /\ NamingIdle /\ TranslateIdle /\ EstimateIdle /\ PollerIdle /\ MetadataIdle /\ WindowIdle /\ NormalizeIdle /\ AnchorIdle /\ RoundsIdle /\ FlowsIdle /\ AbandonIdle /\ HomeIdle

NextFlush ==
    \/ ScenarioReadsChunk
    \/ ScenarioFinalUpdate

SpecFlush == InitFlush /\ [][NextFlush]_vars

HelloWorldScenario ==
    /\ flush_given.threshold = 5
    /\ flush_given.chunks = <<ContentChunk(HelloText), ContentChunk(CommaText),
                              ContentChunk(WorldText), FinishChunk>>

IntermediateFlushes == SelectSeq(flushes, LAMBDA f : f.text.glyph)

\* C33 as stated: with the threshold 5 and the chunks "Hello", ", ", "world",
\* finish, exactly one intermediate flush fires, made by "Hello", and the
\* final flush shows "Hello, world" without the loading character.
C33_OneIntermediateFlush ==
    (HelloWorldScenario /\ flush_pc = "done") =>
        /\ Len(IntermediateFlushes) = 1
        /\ IntermediateFlushes[1].chunk = 1
        /\ flushes[Len(flushes)].text =
              Rendered(HelloText \o CommaText \o WorldText, FALSE)

\* C33, amended: in that scenario two intermediate flushes fire, the first
\* made by "Hello" with five characters buffered and the second by "world"
\* with the seven characters of ", world" buffered, both with the loading
\* character, and the final flush shows "Hello, world" without it.
C33_TwoIntermediateFlushes ==
    (HelloWorldScenario /\ flush_pc = "done") =>
        flushes = << [text |-> Rendered(HelloText, TRUE), chunk |-> 1],
                     [text |-> Rendered(HelloText \o CommaText \o WorldText, TRUE),
                      chunk |-> 3],
                     [text |-> Rendered(HelloText \o CommaText \o WorldText, FALSE),
                      chunk |-> 0] >>

C33_Witness == HelloWorldScenario /\ flush_pc = "done" /\ Len(flushes) = 3

\* Time is kept relative to start_time of the frame, so that it can pass
\* without end: live_elapsed stops counting where every timeout that can be
\* configured has been exceeded by more than a second, and a remainder below
\* -1 is kept as -1 (a frame with a negative timeout aborts at its first
\* chunk read whatever the value).
LongestTimeout == CHOOSE t \in TimeoutChoices : \A u \in TimeoutChoices : u <= t

ElapsedCap == (LongestTimeout + 1) * TicksPerSecond

\* int(timeout_seconds - (time.time() - start_time))
LiveRemainingSeconds ==
    Max(-1, IntTrunc(live_timeout * TicksPerSecond - live_elapsed, TicksPerSecond))

InitRoundsVars ==
    /\ live_pc = "enter"
    /\ live_timeout \in TimeoutChoices
    /\ live_elapsed = 0
    /\ live_round_timeout = 0
    /\ live_took_time = FALSE

\* Time passes, at any point of the session.
TimePasses ==
    /\ live_pc \in {"enter", "round", "read", "overflow", "tools"}
    /\ live_elapsed' = IF live_elapsed < ElapsedCap THEN live_elapsed + 1
                       ELSE live_elapsed
    /\ live_took_time' = TRUE
    /\ UNCHANGED <<live_pc, live_timeout, live_round_timeout>>
    /\ UNCHANGED notRounds

\* start_time = time.time()
FrameEntered ==
    /\ live_pc = "enter"
    /\ live_elapsed' = 0
    /\ live_pc' = "round"
    /\ UNCHANGED <<live_timeout, live_round_timeout, live_took_time>>
    /\ UNCHANGED notRounds

\* the call of handle_litellm_stream, as in StartRound
RoundStarted ==
    /\ live_pc = "round"
    /\ live_round_timeout' = IF impl = "service" THEN LiveRemainingSeconds
                             ELSE live_timeout
    /\ live_pc' = "read"
    /\ UNCHANGED <<live_timeout, live_elapsed, live_took_time>>
    /\ UNCHANGED notRounds

\* A chunk read: the timeout test, then the chunk.  A round ends, by overflow,
\* with tool calls or with the response, only after it has taken time.
ChunkRead ==
    /\ live_pc = "read"
    /\ IF live_elapsed > live_round_timeout * TicksPerSecond
       THEN live_pc' = "aborted"
       ELSE \/ live_pc' = "read"
            \/ live_took_time /\ live_pc' \in {"overflow", "tools", "done"}
    /\ UNCHANGED <<live_timeout, live_elapsed, live_round_timeout, live_took_time>>
    /\ UNCHANGED notRounds

\* the continuation message, as in ContinueAfterOverflow
ContinuationRound ==
    /\ live_pc = "overflow"
    /\ IF impl = "service"
       THEN /\ live_pc' = "round"
            /\ UNCHANGED live_timeout
       ELSE /\ live_pc' = "enter"
            /\ live_timeout' = LiveRemainingSeconds
    /\ live_took_time' = FALSE
    /\ UNCHANGED <<live_elapsed, live_round_timeout>>
    /\ UNCHANGED notRounds

\* the tool follow-up, as in FollowUpAfterTools
ToolFollowUpRound ==
    /\ live_pc = "tools"
    /\ live_timeout' = LiveRemainingSeconds
    /\ live_pc' = "enter"
    /\ live_took_time' = FALSE
    /\ UNCHANGED <<live_elapsed, live_round_timeout>>
    /\ UNCHANGED notRounds

InitRounds ==
    /\ impl \in {"ops", "service"}
    /\ InitRoundsVars
    /\ TrimIdle /\ StreamIdle /\ TimeIdle /\ HandlerIdle /\ MiddlewareIdle /\ ToolIdle /\ OAuthIdle /\ BudgetIdle /\ SessionIdle /\ ClassifyIdle /\ PdfIdle /\ NamingIdle /\ TranslateIdle /\ EstimateIdle /\ PollerIdle /\ MetadataIdle /\ WindowIdle /\ NormalizeIdle /\ AnchorIdle /\ FlushIdle /\ FlowsIdle /\ AbandonIdle /\ HomeIdle

NextRounds ==
    \/ TimePasses
    \/ FrameEntered
    \/ RoundStarted
    \/ ChunkRead
    \/ ContinuationRound
    \/ ToolFollowUpRound

\* The session runs on and its clock runs on: the steps of the code are
\* taken when they can be, chunks keep arriving, and time keeps passing.
SpecRounds ==
    /\ InitRounds
    /\ [][NextRounds]_vars
    /\ WF_vars(TimePasses)
    /\ WF_vars(FrameEntered)
    /\ WF_vars(RoundStarted)
    /\ WF_vars(ChunkRead)
    /\ WF_vars(ContinuationRound)
    /\ WF_vars(ToolFollowUpRound)

SessionOver == live_pc \in {"aborted", "done"}

Flows == {"first", "second"}

OAUTH_URL_PROCESSING == "processing"

InFlow == {"registered", "polling"}

\* key in active_oauth_pollers and not active_oauth_pollers[key].cancelled
PollingStatus ==
    /\ active_oauth_pollers # None
    /\ ~oauth_flow_cancelled[active_oauth_pollers]

InitFlowsVars ==
    /\ active_oauth_pollers = None
    /\ oauth_flow_pc = [f \in Flows |-> "not_started"]
    /\ oauth_flow_cancelled = [f \in Flows |-> FALSE]
    /\ user_oauth_urls = None

\* enable_user_oauth_session up to the start of the flow:
\* set_user_oauth_url_as_processing
enable_user_oauth_session(f) ==
    /\ oauth_flow_pc[f] = "not_started"
    /\ user_oauth_urls' = OAUTH_URL_PROCESSING
    /\ oauth_flow_pc' = [oauth_flow_pc EXCEPT ![f] = "started"]
    /\ UNCHANGED <<active_oauth_pollers, oauth_flow_cancelled>>
    /\ UNCHANGED notFlows

\* The flow does not start: normalize_agentcore_config returns nothing and
\* enable_user_oauth_session raises ValueError, or
\* create_workload_identity_token raises before the poller exists.
FlowFailsToStart(f) ==
    /\ oauth_flow_pc[f] = "started"
    /\ oauth_flow_pc' = [oauth_flow_pc EXCEPT ![f] = "failed"]
    /\ UNCHANGED <<active_oauth_pollers, oauth_flow_cancelled, user_oauth_urls>>
    /\ UNCHANGED notFlows

\* active_oauth_pollers[key] = poller
FlowRegistersPoller(f) ==
    /\ oauth_flow_pc[f] = "started"
    /\ active_oauth_pollers' = f
    /\ oauth_flow_pc' = [oauth_flow_pc EXCEPT ![f] = "registered"]
    /\ UNCHANGED <<oauth_flow_cancelled, user_oauth_urls>>
    /\ UNCHANGED notFlows

\* 'if poller.cancelled: return' and the finally block, or get_token up to
\* on_auth_url_callback, which stores the link if get_oauth_polling_status
FlowGetsAuthUrl(f) ==
    /\ oauth_flow_pc[f] = "registered"
    /\ IF oauth_flow_cancelled[f]
       THEN /\ oauth_flow_pc' = [oauth_flow_pc EXCEPT ![f] = "finished"]
            /\ active_oauth_pollers' = None
            /\ UNCHANGED user_oauth_urls
       ELSE /\ oauth_flow_pc' = [oauth_flow_pc EXCEPT ![f] = "polling"]
            /\ user_oauth_urls' = IF PollingStatus THEN "auth_url"
                                  ELSE user_oauth_urls
            /\ UNCHANGED active_oauth_pollers
    /\ UNCHANGED <<oauth_flow_cancelled>>
    /\ UNCHANGED notFlows

\* poll_for_token ends: cancelled (CancelledError, which no except clause
\* of the flow catches), with the token (on_token_callback clears the URL)
\* or after the polling timeout (on_timeout_callback clears it); then the
\* finally block: if key in active_oauth_pollers: del active_oauth_pollers[key]
FlowLeavesPolling(f) ==
    /\ oauth_flow_pc[f] = "polling"
    /\ IF oauth_flow_cancelled[f]
       THEN UNCHANGED user_oauth_urls
       ELSE \E outcome \in {"token", "TimeoutError"} : user_oauth_urls' = None
    /\ active_oauth_pollers' = None
    /\ oauth_flow_pc' = [oauth_flow_pc EXCEPT ![f] = "finished"]
    /\ UNCHANGED <<oauth_flow_cancelled>>
    /\ UNCHANGED notFlows

\* cancel_user_oauth_polling: cancel_oauth_polling, then clear_user_oauth_url
cancel_user_oauth_polling ==
    /\ \E f \in Flows : oauth_flow_pc[f] \in {"started"} \cup InFlow
    /\ IF active_oauth_pollers # None
       THEN /\ oauth_flow_cancelled' =
                  [oauth_flow_cancelled EXCEPT ![active_oauth_pollers] = TRUE]
            /\ active_oauth_pollers' = None
       ELSE UNCHANGED <<oauth_flow_cancelled, active_oauth_pollers>>
    /\ user_oauth_urls' = None
    /\ UNCHANGED <<oauth_flow_pc>>
    /\ UNCHANGED notFlows

InitFlows ==
    /\ impl = "service"
    /\ InitFlowsVars
    /\ TrimIdle /\ StreamIdle /\ TimeIdle /\ HandlerIdle /\ MiddlewareIdle /\ ToolIdle /\ OAuthIdle /\ BudgetIdle /\ SessionIdle /\ ClassifyIdle /\ PdfIdle /\ NamingIdle /\ TranslateIdle /\ EstimateIdle /\ PollerIdle /\ MetadataIdle /\ WindowIdle /\ NormalizeIdle /\ AnchorIdle /\ FlushIdle /\ RoundsIdle /\ AbandonIdle /\ HomeIdle

NextFlows ==
    \/ \E f \in Flows : enable_user_oauth_session(f)
    \/ \E f \in Flows : FlowFailsToStart(f)
    \/ \E f \in Flows : FlowRegistersPoller(f)
    \/ \E f \in Flows : FlowGetsAuthUrl(f)
    \/ \E f \in Flows : FlowLeavesPolling(f)
    \/ cancel_user_oauth_polling

\* A flow that has been started goes on: it fails or registers its poller,
\* asks for the link, and its polling ends, with the polling timeout at the
\* latest.  Whether the user enables or cancels is up to the user.
SpecFlows ==
    /\ InitFlows
    /\ [][NextFlows]_vars
    /\ \A f \in Flows :
          /\ WF_vars(FlowFailsToStart(f) \/ FlowRegistersPoller(f))
          /\ WF_vars(FlowGetsAuthUrl(f))
          /\ WF_vars(FlowLeavesPolling(f))

\* C37: when a flow ends, its cleanup takes no poller but its own out of
\* active_oauth_pollers; and as long as a flow is under way and not
\* cancelled, get_oauth_polling_status is true and it is that flow's poller
\* that cancel_oauth_polling would cancel.
C37_CleanupRemovesOwnPoller ==
    /\ [][\A f \in Flows :
            ( /\ oauth_flow_pc[f] \in InFlow
              /\ oauth_flow_pc'[f] = "finished"
              /\ active_oauth_pollers' # active_oauth_pollers )
            => active_oauth_pollers = f]_vars
    /\ [](\A f \in Flows :
            (oauth_flow_pc[f] \in InFlow /\ ~oauth_flow_cancelled[f]) =>
                (PollingStatus /\ active_oauth_pollers = f))

\* C38: whenever the stored URL is 'processing', it stops being so: it
\* becomes the authorisation link or is cleared.
C38_ProcessingIsLeft ==
    (user_oauth_urls = OAUTH_URL_PROCESSING) ~> (user_oauth_urls # OAUTH_URL_PROCESSING)

\* Two user messages in one thread and the session each of them starts.  A
\* message of the thread is a record of its kind and of the session it
\* belongs to.
ThreadSessions == {1, 2}

UserPost(s) == [kind |-> "user", of |-> s]

WipPost(s) == [kind |-> "wip", of |-> s]

LastPost == thread_posts[Len(thread_posts)]

\* latest_replies_messages[-1]["ts"] != wip_reply["message"]["ts"]
NewerPostAfterWip(s) == LastPost # WipPost(s)

InitAbandonVars ==
    /\ thread_posts = <<>>
    /\ abandon_pc = [s \in ThreadSessions |-> "not_posted"]
    /\ abandon_context = [s \in ThreadSessions |-> {}]
    /\ deleted_wips = {}
    /\ updated_wips = {}

\* The user posts a message, the second after the first; Slack delivers the
\* event and the listener starts.
UserPostsInThread(s) ==
    /\ abandon_pc[s] = "not_posted"
    /\ \A r \in ThreadSessions : r < s => abandon_pc[r] # "not_posted"
    /\ thread_posts' = Append(thread_posts, UserPost(s))
    /\ abandon_pc' = [abandon_pc EXCEPT ![s] = "history"]
    /\ UNCHANGED <<abandon_context, deleted_wips, updated_wips>>
    /\ UNCHANGED notAbandon

\* conversations_replies: the session reads the thread as it is now
SessionReadsThread(s) ==
    /\ abandon_pc[s] = "history"
    /\ abandon_context' = [abandon_context EXCEPT ![s] =
          {p.of : p \in {thread_posts[i] : i \in 1..Len(thread_posts)}
                         \cap {UserPost(r) : r \in ThreadSessions}}]
    /\ abandon_pc' = [abandon_pc EXCEPT ![s] = "post"]
    /\ UNCHANGED <<thread_posts, deleted_wips, updated_wips>>
    /\ UNCHANGED notAbandon

\* post_wip_message, after the messages have been assembled
SessionPostsWip(s) ==
    /\ abandon_pc[s] = "post"
    /\ thread_posts' = Append(thread_posts, WipPost(s))
    /\ abandon_pc' = [abandon_pc EXCEPT ![s] = "start"]
    /\ UNCHANGED <<abandon_context, deleted_wips, updated_wips>>
    /\ UNCHANGED notAbandon

\* trim_pdf_content, messages_within_context_window and
\* start_receiving_litellm_response
SessionStartsCompletion(s) ==
    /\ abandon_pc[s] = "start"
    /\ abandon_pc' = [abandon_pc EXCEPT ![s] = "check"]
    /\ UNCHANGED <<thread_posts, abandon_context, deleted_wips, updated_wips>>
    /\ UNCHANGED notAbandon

\* The second conversations_replies: with another message behind its WIP
\* message the session deletes the WIP message and returns
SessionChecksLatest(s) ==
    /\ abandon_pc[s] = "check"
    /\ IF NewerPostAfterWip(s)
       THEN /\ deleted_wips' = deleted_wips \cup {s}
            /\ thread_posts' = SelectSeq(thread_posts, LAMBDA p : p # WipPost(s))
            /\ abandon_pc' = [abandon_pc EXCEPT ![s] = "abandoned"]
       ELSE /\ abandon_pc' = [abandon_pc EXCEPT ![s] = "stream"]
            /\ UNCHANGED <<deleted_wips, thread_posts>>
    /\ UNCHANGED <<abandon_context, updated_wips>>
    /\ UNCHANGED notAbandon

\* consume_litellm_stream_to_write_reply: the reply is written into the WIP
\* message with chat_update
SessionStreamsReply(s) ==
    /\ abandon_pc[s] = "stream"
    /\ updated_wips' = IF s \in deleted_wips THEN updated_wips \cup {s}
                       ELSE updated_wips
    /\ abandon_pc' = [abandon_pc EXCEPT ![s] = "streamed"]
    /\ UNCHANGED <<thread_posts, abandon_context, deleted_wips>>
    /\ UNCHANGED notAbandon

InitAbandon ==
    /\ impl = "ops"
    /\ InitAbandonVars
    /\ TrimIdle /\ StreamIdle /\ TimeIdle /\ HandlerIdle /\ MiddlewareIdle /\ ToolIdle /\ OAuthIdle /\ BudgetIdle /\ SessionIdle /\ ClassifyIdle /\ PdfIdle /\ NamingIdle /\ TranslateIdle /\ EstimateIdle /\ PollerIdle /\ MetadataIdle /\ WindowIdle /\ NormalizeIdle /\ AnchorIdle /\ FlushIdle /\ RoundsIdle /\ FlowsIdle /\ HomeIdle

NextAbandon ==
    \/ \E s \in ThreadSessions : UserPostsInThread(s)
    \/ \E s \in ThreadSessions : SessionReadsThread(s)
    \/ \E s \in ThreadSessions : SessionPostsWip(s)
    \/ \E s \in ThreadSessions : SessionStartsCompletion(s)
    \/ \E s \in ThreadSessions : SessionChecksLatest(s)
    \/ \E s \in ThreadSessions : SessionStreamsReply(s)

SpecAbandon == InitAbandon /\ [][NextAbandon]_vars

AllSessionsOver ==
    \A s \in ThreadSessions : abandon_pc[s] \in {"abandoned", "streamed"}

MostRecentUserPost == CHOOSE s \in ThreadSessions : \A r \in ThreadSessions : r <= s

\* C39: a session deletes its WIP message and stops only when a newer
\* message stands behind its WIP message in the thread; whatever the order
\* of the steps of the sessions, the most recent user message gets a
\* streamed reply (a session that has read it streams); and no WIP message
\* is updated after it was deleted.
C39_LatestMessageAnswered ==
    /\ [][\A s \in ThreadSessions :
            (abandon_pc[s] = "check" /\ abandon_pc'[s] = "abandoned") =>
                \E i, j \in 1..Len(thread_posts) :
                    /\ thread_posts[i] = WipPost(s)
                    /\ i < j]_vars
    /\ [](AllSessionsOver =>
            \E s \in ThreadSessions :
                /\ abandon_pc[s] = "streamed"
                /\ MostRecentUserPost \in abandon_context[s])
    /\ [](updated_wips = {})

\* What is stored for the user and one server: the URL (None, 'processing'
\* or the authorisation link) and the session (None, stored without a
\* "tools" entry, or with the tools that were fetched).
OAuthServers == {"server_a", "server_b"}

StoredUrls == {None, OAUTH_URL_PROCESSING, "auth_url"}

StoredSessions == {None, "without_tools", "with_tools"}

\* get_user_oauth_mcp_tools: session.get("tools", []) for every session;
\* a server without a session has no entry
get_user_oauth_mcp_tools(session) ==
    IF session = None THEN None
    ELSE IF session = "with_tools" THEN "tools" ELSE "empty_list"

\* build_home_tab_blocks: user_oauth_tools.get(server_name) is not None
has_cached_tools(session) == get_user_oauth_mcp_tools(session) # None

\* build_oauth_servers_section, what follows the name of the server
build_oauth_servers_section(auth_url, session) ==
    LET has_valid_session == session # None
        is_fetching_tools == has_valid_session /\ ~has_cached_tools(session)
        link == auth_url # None /\ auth_url # OAUTH_URL_PROCESSING
    IN  ( IF has_valid_session /\ has_cached_tools(session) THEN {"Disable"}
          ELSE IF is_fetching_tools THEN {"Fetching tools..."}
          ELSE IF link THEN {}
          ELSE IF auth_url = OAUTH_URL_PROCESSING THEN {"Please wait...", "Cancel"}
          ELSE {"Enable"} )
        \cup (IF link THEN {"Click to authorize", "Cancel"} ELSE {})

InitHomeVars ==
    /\ home_pc = "stored"
    /\ home_given \in [OAuthServers -> [auth_url : StoredUrls, session : StoredSessions]]
    /\ home_blocks = [server \in OAuthServers |-> {}]

\* update_home_tab: the stores are read and the view is published
update_home_tab ==
    /\ home_pc = "stored"
    /\ home_blocks' = [server \in OAuthServers |->
          build_oauth_servers_section(home_given[server].auth_url,
                                      home_given[server].session)]
    /\ home_pc' = "published"
    /\ UNCHANGED <<home_given>>
    /\ UNCHANGED notHome

InitHome ==
    /\ impl = "service"
    /\ InitHomeVars
    /\ TrimIdle /\ StreamIdle /\ TimeIdle /\ HandlerIdle /\ MiddlewareIdle /\ ToolIdle /\ OAuthIdle /\ BudgetIdle /\ SessionIdle /\ ClassifyIdle /\ PdfIdle /\ NamingIdle /\ TranslateIdle /\ EstimateIdle /\ PollerIdle /\ MetadataIdle /\ WindowIdle /\ NormalizeIdle /\ AnchorIdle /\ FlushIdle /\ RoundsIdle /\ FlowsIdle /\ AbandonIdle

NextHome == update_home_tab

SpecHome == InitHome /\ [][NextHome]_vars

\* C40: for every OAuth server the published home tab shows exactly one
\* state: the Enable button, 'Please wait...' with Cancel, the
\* authorisation link with Cancel, 'Fetching tools...' or the Disable
\* button; and it shows the Disable button only for a session whose tools
\* have been fetched.
C40_OneStatePerServer ==
    home_pc = "published" =>
        \A server \in OAuthServers :
            /\ home_blocks[server] \in
                  { {"Enable"}, {"Please wait...", "Cancel"},
                    {"Click to authorize", "Cancel"}, {"Fetching tools..."},
                    {"Disable"} }
            /\ "Disable" \in home_blocks[server] =>
                  home_given[server].session = "with_tools"

=============================================================================
